---- MODULE Spec2Model ----
(***************************************************************************)
(* CampusConnect: the relational store (tables, constraints, triggers and  *)
(* row-level-security policies of the migration) and the views that call   *)
(* it through the supabase client.                                         *)
(*                                                                         *)
(* The store is PostgreSQL behind PostgREST.  A statement issued by a      *)
(* caller runs under the row policies of its table:                        *)
(*   SELECT  returns the rows that pass the SELECT policy's USING;         *)
(*   INSERT  fails with an error unless the new row passes WITH CHECK;     *)
(*   UPDATE  touches only the rows that pass the SELECT and the UPDATE     *)
(*           USING (the others are skipped without an error), and fails    *)
(*           if a new row does not pass WITH CHECK (USING when no WITH     *)
(*           CHECK is written);                                            *)
(*   DELETE  removes only the rows that pass the SELECT and DELETE USING.  *)
(* A table with row security enabled and no policy for a command denies    *)
(* that command to every client role.                                      *)
(***************************************************************************)
EXTENDS Integers, Sequences, FiniteSets, TLC

\* ---------------------------------------------------------------- bounds
MaxUsers == 2
MaxEmergencies == 2
MaxSubmitted == 1
MaxTime == 2
MaxPosts == 1
MaxLogs == 2
MaxOlder == 11

\* ---------------------------------------------------------------- values
UserIds == 1..MaxUsers
\* auth.uid() of a request that carries no session (the anon key alone).
Anon == 0
\* SQL NULL in a uuid or timestamp column.
NULL == 0
\* SQL NULL in a text column.
NoText == "<null>"
Emails == {NoText, "s@campus"}
MetaNames == {NoText, "Sam"}
Names == {"", "Sam"}
app_role == {"admin", "user"}
\* What a text input of a form holds, as a list of characters: a blank, or
\* a word between blanks.
Texts == {<<" ">>, <<" ", "G", " ">>}
\* What a date or time input of a form holds: nothing or a value.
Picks == {"", "set"}
\* seats_available values a ride is offered with, and seats_taken values a
\* client writes; both columns are plain integers.
SeatChoices == {3}
SeatsTakenChoices == {5}

VARIABLES
    auth_users,          \* auth.users: the ids of the identities that exist
    profiles,            \* public.profiles rows
    user_roles,          \* public.user_roles rows
    emergency_requests,  \* public.emergency_requests rows
    travel_posts,        \* public.travel_posts rows
    errand_requests,     \* public.errand_requests rows
    carpool_rides,       \* public.carpool_rides rows
    activity_logs,       \* public.activity_logs rows, in insertion order
    clock,               \* wall-clock time, read by new Date() and now()
    result,              \* what the last statement or handler returned
    emergencies,         \* AdminEmergencies: the list state, per session
    resolvingId,         \* AdminEmergencies: the row being resolved, per session
    mounted,             \* sessions that have AdminEmergencies on screen
    pending,             \* resolve updates sent and not yet executed by the store
    replies,             \* resolve updates executed, reply not yet handled
    applyLog,            \* the resolve updates in the order the store executed them
    toast,               \* the last notification shown, and the session it was shown to
    errands,             \* Errands: the list state, per session
    carpools,            \* Carpools: the list state, per session
    completing,          \* Errands / Carpools: the row being completed, per view and session
    completions,         \* complete handlers past their store calls, not yet returned
    travelPosts,         \* Dashboard: the list state, per session
    lastRun              \* the store calls of the handler that showed the last notification

storeVars == <<auth_users, profiles, user_roles, emergency_requests, activity_logs>>
listingVars == <<travel_posts, errand_requests, carpool_rides>>
listViewVars == <<errands, carpools, completing, completions, travelPosts, lastRun>>
viewVars == <<emergencies, resolvingId, mounted, pending, replies, applyLog, toast,
              listViewVars>>
vars == <<auth_users, profiles, user_roles, emergency_requests, travel_posts,
          errand_requests, carpool_rides, activity_logs, clock, result, emergencies, resolvingId, mounted, pending, replies,
          applyLog, toast, errands, carpools, completing, completions,
          travelPosts, lastRun>>

\* ---------------------------------------------------------------- helpers
\* gen_random_uuid(): an id no row of the table carries.
FreshId(rows) ==
    CHOOSE i \in 1..(Cardinality(rows) + 1) :
        /\ \A r \in rows : r.id # i
        /\ \A j \in 1..(i - 1) : \E r \in rows : r.id = j

\* The role of the request: authenticated when it carries a live session.
Authenticated(c) == c \in auth_users

\* The callers a request can come from: a signed-in identity or the anon key.
Callers == auth_users \cup {Anon}

MutHasRoleAnyRole(u, role) == \E r \in user_roles : r.user_id = u
\* public.has_role(_user_id, _role): SECURITY DEFINER, reads user_roles past RLS.
has_role(u, role) == \E r \in user_roles : r.user_id = u /\ r.role = role

\* What a statement returns to supabase-js: { data, error } and the row count.
Reply(kind, op, table, caller, target, error, count, data) ==
    [kind |-> kind, op |-> op, table |-> table, caller |-> caller,
     target |-> target, error |-> error, count |-> count, data |-> data]

\* toast({ title }) in the view of session s.
Toast(s, title) == [session |-> s, title |-> title]

\* The views that hold a `completing` slot.
Views == {"Errands", "Carpools"}

\* What a handler did at the store: the mutation it sent (its error and the
\* number of rows it changed) and whether its activity-log insert was sent
\* and went in ("none", "ok", "failed").
Run(view, s, id, error, count, logged) ==
    [view |-> view, session |-> s, id |-> id, error |-> error, count |-> count,
     logged |-> logged]

\* No handler has shown a notification yet.
NoRun == Run("none", Anon, NULL, FALSE, 0, "none")

\* ------------------------------------------------ policies: user_roles
\* "Users can view their own roles": FOR SELECT TO authenticated.
PolicyUserRolesSelect(c, row) == Authenticated(c) /\ row.user_id = c

MutPolicyUserRolesInsertOwn(c, row) == Authenticated(c) /\ row.user_id = c
\* RLS is enabled on user_roles and no INSERT policy exists.
PolicyUserRolesInsert(c, row) == FALSE

\* RLS is enabled on user_roles and no UPDATE policy exists.
PolicyUserRolesUpdate(c, row) == FALSE

\* RLS is enabled on user_roles and no DELETE policy exists.
PolicyUserRolesDelete(c, row) == FALSE

\* -------------------------------------------------- policies: profiles
MutPolicyProfilesSelectAdmin(c, row) ==
    Authenticated(c) /\ (row.user_id = c \/ has_role(c, "admin"))
\* "Users can view their own profile": FOR SELECT TO authenticated.
PolicyProfilesSelect(c, row) == Authenticated(c) /\ row.user_id = c

\* "Users can update their own profile": FOR UPDATE TO authenticated; the
\* USING expression also checks the new row, no WITH CHECK being written.
PolicyProfilesUpdate(c, row) == Authenticated(c) /\ row.user_id = c

\* RLS is enabled on profiles and no INSERT policy exists.
PolicyProfilesInsert(c, row) == FALSE

MutPolicyProfilesDeleteOwn(c, row) == Authenticated(c) /\ row.user_id = c
\* RLS is enabled on profiles and no DELETE policy exists.
PolicyProfilesDelete(c, row) == FALSE

\* ------------------------------------------------- constraints
\* The rows of profiles and user_roles are kept without their id column: the
\* UNIQUE constraints below make user_id, and (user_id, role), keys.
\* profiles: user_id REFERENCES auth.users NOT NULL UNIQUE, email NOT NULL,
\* name NOT NULL.  `others` are the rows the new row must not collide with,
\* `ids` the identities that exist when the constraint is checked.
ProfileRowOk(row, others, ids) ==
    /\ row.user_id \in ids
    /\ row.email # NoText
    /\ row.name # NoText
    /\ \A p \in others : p.user_id # row.user_id

\* user_roles: user_id REFERENCES auth.users NOT NULL, role app_role NOT NULL,
\* UNIQUE (user_id, role).
RoleRowOk(row, others, ids) ==
    /\ row.user_id \in ids
    /\ row.role \in app_role
    /\ \A r \in others : ~(r.user_id = row.user_id /\ r.role = row.role)

\* ------------------------------------------------- signup trigger
\* COALESCE(NEW.raw_user_meta_data->>'name', '')
CoalesceName(metaName) == IF metaName = NoText THEN "" ELSE metaName

\* The profile row handle_new_user inserts for NEW.
NewUserProfile(u, email, metaName) ==
    [user_id |-> u, email |-> email, name |-> CoalesceName(metaName)]

\* The role row handle_new_user inserts for NEW.
NewUserRole(u) == [user_id |-> u, role |-> "user"]

MutHandleNewUserSwallows(u, email, metaName) ==
    LET p == NewUserProfile(u, email, metaName)
        r == NewUserRole(u)
        ok == /\ ProfileRowOk(p, profiles, auth_users \cup {u})
              /\ RoleRowOk(r, user_roles, auth_users \cup {u})
    IN  [ok |-> TRUE,
         profiles |-> IF ok THEN profiles \cup {p} ELSE profiles,
         user_roles |-> IF ok THEN user_roles \cup {r} ELSE user_roles]
\* handle_new_user(), fired AFTER INSERT ON auth.users in the transaction of
\* the insert: either both rows are inserted or the statement raises.
handle_new_user(u, email, metaName) ==
    LET p == NewUserProfile(u, email, metaName)
        r == NewUserRole(u)
        ok == /\ ProfileRowOk(p, profiles, auth_users \cup {u})
              /\ RoleRowOk(r, user_roles, auth_users \cup {u})
    IN  [ok |-> ok,
         profiles |-> IF ok THEN profiles \cup {p} ELSE profiles,
         user_roles |-> IF ok THEN user_roles \cup {r} ELSE user_roles]

\* Account creation: INSERT INTO auth.users, which fires on_auth_user_created.
\* An exception in the trigger rolls the insert back.
SignUp(u, email, metaName) ==
    /\ u \notin auth_users
    /\ LET t == handle_new_user(u, email, metaName)
       IN  /\ auth_users' = IF t.ok THEN auth_users \cup {u} ELSE auth_users
           /\ profiles' = t.profiles
           /\ user_roles' = t.user_roles
           /\ result' = Reply("client", "signup", "auth.users", Anon, u, ~t.ok,
                              IF t.ok THEN 1 ELSE 0, {})
    /\ UNCHANGED <<listingVars, emergency_requests, activity_logs, clock, viewVars>>

\* ------------------------------------------------- service role
\* An admin role row is inserted by the service role (the table owner), which
\* row security does not bind; the constraints of user_roles still apply.
ServiceGrantAdmin(u) ==
    LET row == [user_id |-> u, role |-> "admin"]
        ok == RoleRowOk(row, user_roles, auth_users)
    IN  /\ user_roles' = IF ok THEN user_roles \cup {row} ELSE user_roles
        /\ result' = Reply("service", "insert", "user_roles", Anon, u, ~ok,
                           IF ok THEN 1 ELSE 0, {})
        /\ UNCHANGED <<listingVars, auth_users, profiles, emergency_requests, activity_logs,
                       clock, viewVars>>

MutDeleteBlockedNever(u) == FALSE
\* resolved_by REFERENCES auth.users(id) without ON DELETE: a row that names u
\* as resolver and is not itself removed by the cascade blocks the delete.
DeleteBlocked(u) ==
    \E e \in emergency_requests : e.resolved_by = u /\ e.user_id # u

\* DELETE FROM auth.users by the service role: the ON DELETE CASCADE foreign
\* keys of user_roles, profiles, travel_posts and emergency_requests remove
\* u's rows; errand_requests and carpool_rides carry no foreign key.
ServiceDeleteUser(u) ==
    /\ u \in auth_users
    /\ LET ok == ~DeleteBlocked(u)
       IN  /\ auth_users' = IF ok THEN auth_users \ {u} ELSE auth_users
           /\ profiles' = IF ok THEN {p \in profiles : p.user_id # u} ELSE profiles
           /\ user_roles' =
                IF ok THEN {r \in user_roles : r.user_id # u} ELSE user_roles
           /\ emergency_requests' =
                IF ok THEN {e \in emergency_requests : e.user_id # u}
                ELSE emergency_requests
           /\ travel_posts' =
                IF ok THEN {t \in travel_posts : t.user_id # u} ELSE travel_posts
           /\ result' = Reply("service", "delete", "auth.users", Anon, u, ~ok,
                              IF ok THEN 1 ELSE 0, {})
    /\ UNCHANGED <<errand_requests, carpool_rides, activity_logs, clock, viewVars>>

\* ------------------------------------------------- client: profiles
\* supabase.from("profiles").insert(row)
ClientInsertProfile(c, u, name) ==
    LET row == [user_id |-> u, email |-> "s@campus", name |-> name]
        ok == PolicyProfilesInsert(c, row) /\ ProfileRowOk(row, profiles, auth_users)
    IN  /\ profiles' = IF ok THEN profiles \cup {row} ELSE profiles
        /\ result' = Reply("client", "insert", "profiles", c, u, ~ok,
                           IF ok THEN 1 ELSE 0, {})
        /\ UNCHANGED <<listingVars, auth_users, user_roles, emergency_requests, activity_logs,
                       clock, viewVars>>

\* supabase.from("profiles").update({ name, user_id }).eq("user_id", target)
ClientUpdateProfile(c, target, name, owner) ==
    LET hit == {p \in profiles : /\ p.user_id = target
                                 /\ PolicyProfilesSelect(c, p)
                                 /\ PolicyProfilesUpdate(c, p)}
        new(p) == [p EXCEPT !.name = name, !.user_id = owner]
        ok == \A p \in hit : /\ PolicyProfilesUpdate(c, new(p))
                             /\ ProfileRowOk(new(p), profiles \ hit, auth_users)
    IN  /\ profiles' = IF ok THEN (profiles \ hit) \cup {new(p) : p \in hit}
                       ELSE profiles
        /\ result' = Reply("client", "update", "profiles", c, target, ~ok,
                           IF ok THEN Cardinality(hit) ELSE 0, {})
        /\ UNCHANGED <<listingVars, auth_users, user_roles, emergency_requests, activity_logs,
                       clock, viewVars>>

\* supabase.from("profiles").delete().eq("user_id", target)
ClientDeleteProfile(c, target) ==
    LET hit == {p \in profiles : /\ p.user_id = target
                                 /\ PolicyProfilesSelect(c, p)
                                 /\ PolicyProfilesDelete(c, p)}
    IN  /\ profiles' = profiles \ hit
        /\ result' = Reply("client", "delete", "profiles", c, target, FALSE,
                           Cardinality(hit), {})
        /\ UNCHANGED <<listingVars, auth_users, user_roles, emergency_requests, activity_logs,
                       clock, viewVars>>

\* ------------------------------------------------- client: user_roles
\* supabase.from("user_roles").insert({ user_id, role })
ClientInsertRole(c, u, role) ==
    LET row == [user_id |-> u, role |-> role]
        ok == PolicyUserRolesInsert(c, row) /\ RoleRowOk(row, user_roles, auth_users)
    IN  /\ user_roles' = IF ok THEN user_roles \cup {row} ELSE user_roles
        /\ result' = Reply("client", "insert", "user_roles", c, u, ~ok,
                           IF ok THEN 1 ELSE 0, {row})
        /\ UNCHANGED <<listingVars, auth_users, profiles, emergency_requests, activity_logs,
                       clock, viewVars>>

\* supabase.from("user_roles").update({ role }).eq("user_id", target)
ClientUpdateRole(c, target, role) ==
    LET hit == {r \in user_roles : /\ r.user_id = target
                                   /\ PolicyUserRolesSelect(c, r)
                                   /\ PolicyUserRolesUpdate(c, r)}
        new(r) == [r EXCEPT !.role = role]
        ok == \A r \in hit : /\ PolicyUserRolesUpdate(c, new(r))
                             /\ RoleRowOk(new(r), user_roles \ hit, auth_users)
    IN  /\ user_roles' = IF ok THEN (user_roles \ hit) \cup {new(r) : r \in hit}
                         ELSE user_roles
        /\ result' = Reply("client", "update", "user_roles", c, target, ~ok,
                           IF ok THEN Cardinality(hit) ELSE 0, {})
        /\ UNCHANGED <<listingVars, auth_users, profiles, emergency_requests, activity_logs,
                       clock, viewVars>>

\* supabase.from("user_roles").delete().eq("user_id", target)
ClientDeleteRole(c, target) ==
    LET hit == {r \in user_roles : /\ r.user_id = target
                                   /\ PolicyUserRolesSelect(c, r)
                                   /\ PolicyUserRolesDelete(c, r)}
    IN  /\ user_roles' = user_roles \ hit
        /\ result' = Reply("client", "delete", "user_roles", c, target, FALSE,
                           Cardinality(hit), {})
        /\ UNCHANGED <<listingVars, auth_users, profiles, emergency_requests, activity_logs,
                       clock, viewVars>>

\* supabase.from("user_roles").select()
ClientSelectRoles(c) ==
    /\ result' = Reply("client", "select", "user_roles", c, NULL, FALSE, 0,
                       {r \in user_roles : PolicyUserRolesSelect(c, r)})
    /\ UNCHANGED <<listingVars, storeVars, clock, viewVars>>

\* ------------------------------------------- policies: emergency_requests
MutPolicyEmergencySelectAll(c, row) == Authenticated(c)
\* "Users can view their own emergency requests": FOR SELECT TO authenticated.
PolicyEmergencySelect(c, row) ==
    Authenticated(c) /\ (row.user_id = c \/ has_role(c, "admin"))

\* "Users can create emergency requests": FOR INSERT TO authenticated.
PolicyEmergencyInsert(c, row) == Authenticated(c) /\ row.user_id = c

\* "Admins can update emergency requests": FOR UPDATE TO authenticated; the
\* USING expression also checks the new row, no WITH CHECK being written.
PolicyEmergencyUpdate(c, row) == Authenticated(c) /\ has_role(c, "admin")

MutPolicyEmergencyDeleteOwner(c, row) ==
    Authenticated(c) /\ (row.user_id = c \/ has_role(c, "admin"))
\* "Admins can delete emergency requests": FOR DELETE TO authenticated.
PolicyEmergencyDelete(c, row) == Authenticated(c) /\ has_role(c, "admin")

\* emergency_requests: user_id REFERENCES auth.users NOT NULL, status CHECK
\* (status IN ('open', 'resolved')), resolved_by REFERENCES auth.users.
\* (reason and location, which no policy reads, are left out of the rows.)
EmergencyRowOk(row) ==
    /\ row.user_id \in auth_users
    /\ row.status \in {"open", "resolved"}
    /\ row.resolved_by \in auth_users \cup {NULL}

\* ------------------------------------------- client: emergency_requests
\* supabase.from("emergency_requests").insert({ user_id, status })
ClientInsertEmergency(c, owner, status) ==
    /\ Cardinality(emergency_requests) < MaxEmergencies
    /\ LET row == [id |-> FreshId(emergency_requests), user_id |-> owner,
                   status |-> status, resolved_at |-> NULL, resolved_by |-> NULL]
           ok == PolicyEmergencyInsert(c, row) /\ EmergencyRowOk(row)
       IN  /\ emergency_requests' =
                IF ok THEN emergency_requests \cup {row} ELSE emergency_requests
           /\ result' = Reply("client", "insert", "emergency_requests", c, row.id,
                              ~ok, IF ok THEN 1 ELSE 0, {})
    /\ UNCHANGED <<listingVars, auth_users, profiles, user_roles, activity_logs, clock, viewVars>>

\* The column values a client sends in an update of an emergency request:
\* a reopening, or a resolution in the name of some identity.
EmergencyPatches ==
    {[status |-> "open", resolved_at |-> NULL, resolved_by |-> NULL]}
    \cup {[status |-> "resolved", resolved_at |-> 1, resolved_by |-> b] : b \in UserIds}

MutEqIdAndOpen(e, target) == e.id = target /\ e.status = "open"
\* .eq("id", id): the only filter the update carries.
EqId(e, target) == e.id = target

MutApplyPatchToggle(e, patch) ==
    [e EXCEPT !.status = IF e.status = patch.status THEN "open" ELSE patch.status,
              !.resolved_at = patch.resolved_at,
              !.resolved_by = patch.resolved_by]
MutApplyPatchKeepFirst(e, patch) ==
    [e EXCEPT !.status = patch.status,
              !.resolved_at = IF e.resolved_at # NULL THEN e.resolved_at
                              ELSE patch.resolved_at,
              !.resolved_by = IF e.resolved_by # NULL THEN e.resolved_by
                              ELSE patch.resolved_by]
\* .update({ status, resolved_at, resolved_by }): the three columns are set
\* to the values sent, whatever the row held.
ApplyPatch(e, patch) ==
    [e EXCEPT !.status = patch.status,
              !.resolved_at = patch.resolved_at,
              !.resolved_by = patch.resolved_by]

\* UPDATE emergency_requests SET ... WHERE id = target, as caller c.
UpdateEmergency(c, target, patch) ==
    LET hit == {e \in emergency_requests : /\ EqId(e, target)
                                           /\ PolicyEmergencySelect(c, e)
                                           /\ PolicyEmergencyUpdate(c, e)}
        new(e) == ApplyPatch(e, patch)
        ok == \A e \in hit : PolicyEmergencyUpdate(c, new(e)) /\ EmergencyRowOk(new(e))
    IN  [error |-> ~ok,
         count |-> IF ok THEN Cardinality(hit) ELSE 0,
         rows |-> IF ok THEN (emergency_requests \ hit) \cup {new(e) : e \in hit}
                  ELSE emergency_requests]

\* supabase.from("emergency_requests").update(patch).eq("id", target)
ClientUpdateEmergency(c, target, patch) ==
    /\ LET u == UpdateEmergency(c, target, patch)
       IN  /\ emergency_requests' = u.rows
           /\ result' = Reply("client", "update", "emergency_requests", c, target,
                              u.error, u.count, {})
    /\ UNCHANGED <<listingVars, auth_users, profiles, user_roles, activity_logs, clock, viewVars>>

\* supabase.from("emergency_requests").delete().eq("id", target)
ClientDeleteEmergency(c, target) ==
    /\ LET hit == {e \in emergency_requests : /\ e.id = target
                                              /\ PolicyEmergencySelect(c, e)
                                              /\ PolicyEmergencyDelete(c, e)}
       IN  /\ emergency_requests' = emergency_requests \ hit
           /\ result' = Reply("client", "delete", "emergency_requests", c, target,
                              FALSE, Cardinality(hit), {})
    /\ UNCHANGED <<listingVars, auth_users, profiles, user_roles, activity_logs, clock, viewVars>>

\* SELECT * FROM emergency_requests, as caller c.
SelectEmergencies(c) == {e \in emergency_requests : PolicyEmergencySelect(c, e)}

\* supabase.from("emergency_requests").select()
ClientSelectEmergencies(c) ==
    /\ result' = Reply("client", "select", "emergency_requests", c, NULL, FALSE,
                       Cardinality(SelectEmergencies(c)), SelectEmergencies(c))
    /\ UNCHANGED <<listingVars, storeVars, clock, viewVars>>

\* ------------------------------------------- policies: listings
MutPolicyTravelSelectOwn(c, row) == Authenticated(c) /\ row.user_id = c
\* "Users can view all travel posts": FOR SELECT TO authenticated USING (true).
PolicyTravelSelect(c, row) == Authenticated(c)

\* "Users can create their own travel posts": FOR INSERT TO authenticated.
PolicyTravelInsert(c, row) == Authenticated(c) /\ row.user_id = c

\* "Users can view all errand requests": FOR SELECT USING (true), any role.
PolicyErrandSelect(c, row) == TRUE

\* "Users can create their own errand requests": WITH CHECK (user_id = auth.uid()).
PolicyErrandInsert(c, row) == c # Anon /\ row.user_id = c

\* "Users can view all carpool rides": FOR SELECT USING (true), any role.
PolicyCarpoolSelect(c, row) == TRUE

\* "Users can create their own carpool rides": WITH CHECK (driver_id = auth.uid()).
PolicyCarpoolInsert(c, row) == c # Anon /\ row.driver_id = c

\* "Users can update their own travel posts": FOR UPDATE TO authenticated.
PolicyTravelUpdate(c, row) == Authenticated(c) /\ row.user_id = c

\* "Users can delete their own travel posts": FOR DELETE TO authenticated.
PolicyTravelDelete(c, row) == Authenticated(c) /\ row.user_id = c

MutPolicyErrandUpdateAny(c, row) == TRUE
MutPolicyErrandUpdateSignedIn(c, row) == c # Anon
\* "Users can update their own errand requests": USING (user_id = auth.uid()).
PolicyErrandUpdate(c, row) == c # Anon /\ row.user_id = c

\* "Users can delete their own errand requests": USING (user_id = auth.uid()).
PolicyErrandDelete(c, row) == c # Anon /\ row.user_id = c

\* "Users can update their own carpool rides": USING (driver_id = auth.uid()).
PolicyCarpoolUpdate(c, row) == c # Anon /\ row.driver_id = c

\* "Users can delete their own carpool rides": USING (driver_id = auth.uid()).
PolicyCarpoolDelete(c, row) == c # Anon /\ row.driver_id = c

\* travel_posts: user_id UUID REFERENCES auth.users(id) NOT NULL.
TravelRowOk(row) == row.user_id \in auth_users

\* errand_requests: user_id uuid NOT NULL, status text NOT NULL; no foreign
\* key, no CHECK.
ErrandRowOk(row) == row.user_id # NULL

MutCarpoolRowOkSeatsBounded(row) ==
    row.driver_id # NULL /\ row.seats_taken <= row.seats_available
\* carpool_rides: driver_id uuid NOT NULL, seats_available and seats_taken
\* integer NOT NULL; no foreign key, no CHECK.
CarpoolRowOk(row) == row.driver_id # NULL

\* ------------------------------------------- client: listings
\* UPDATE ... SET patch: the columns the patch names take its values, the
\* others keep theirs.
SetColumns(row, patch) ==
    [f \in DOMAIN row |-> IF f \in DOMAIN patch THEN patch[f] ELSE row[f]]

\* created_at ... NOT NULL DEFAULT now(): statements run one after another,
\* so a new row gets a time later than that of every row the table holds.
\* Time 0 is the initial state; rows that were there before carry earlier
\* (negative) times.
NowAfter(rows) ==
    1 + (CHOOSE m \in {0} \cup {r.created_at : r \in rows} :
            \A r \in rows : r.created_at <= m)

\* The travel posts created since the initial state.
PostedSinceStart == {t \in travel_posts : t.created_at > 0}

\* supabase.from("travel_posts").insert({ user_id, ... }); status defaults to
\* active, created_at to now().  user_id REFERENCES auth.users NOT NULL.
ClientInsertTravelPost(c, owner) ==
    /\ Cardinality(PostedSinceStart) < MaxPosts
    /\ LET row == [id |-> FreshId(travel_posts), user_id |-> owner,
                   status |-> "active", created_at |-> NowAfter(travel_posts)]
           ok == PolicyTravelInsert(c, row) /\ TravelRowOk(row)
       IN  /\ travel_posts' = IF ok THEN travel_posts \cup {row} ELSE travel_posts
           /\ result' = Reply("client", "insert", "travel_posts", c, row.id, ~ok,
                              IF ok THEN 1 ELSE 0, {})
    /\ UNCHANGED <<storeVars, errand_requests, carpool_rides, clock, viewVars>>

\* supabase.from("errand_requests").insert({ user_id, ... }); status defaults
\* to open.  user_id is NOT NULL and references nothing.
ClientInsertErrand(c, owner) ==
    /\ Cardinality(errand_requests) < MaxPosts
    /\ LET row == [id |-> FreshId(errand_requests), user_id |-> owner,
                   status |-> "open", completed_at |-> NULL, completed_by |-> NULL]
           ok == PolicyErrandInsert(c, row) /\ ErrandRowOk(row)
       IN  /\ errand_requests' =
                IF ok THEN errand_requests \cup {row} ELSE errand_requests
           /\ result' = Reply("client", "insert", "errand_requests", c, row.id, ~ok,
                              IF ok THEN 1 ELSE 0, {})
    /\ UNCHANGED <<storeVars, travel_posts, carpool_rides, clock, viewVars>>

\* supabase.from("carpool_rides").insert({ driver_id, seats_available, ... });
\* seats_taken defaults to 0, status to active.  driver_id is NOT NULL
\* and references nothing.
ClientInsertCarpool(c, driver, seats) ==
    /\ Cardinality(carpool_rides) < MaxPosts
    /\ LET row == [id |-> FreshId(carpool_rides), driver_id |-> driver,
                   seats_available |-> seats, seats_taken |-> 0,
                   status |-> "active", completed_at |-> NULL]
           ok == PolicyCarpoolInsert(c, row) /\ CarpoolRowOk(row)
       IN  /\ carpool_rides' = IF ok THEN carpool_rides \cup {row} ELSE carpool_rides
           /\ result' = Reply("client", "insert", "carpool_rides", c, row.id, ~ok,
                              IF ok THEN 1 ELSE 0, {})
    /\ UNCHANGED <<storeVars, travel_posts, errand_requests, clock, viewVars>>

\* The column values a client sends in an update of a travel post: a new
\* status, or another owner.
TravelPatches ==
    {[status |-> "completed"]} \cup {[user_id |-> b] : b \in UserIds}

\* The column values a client sends in an update of an errand request: a
\* completion in the name of some identity, or another owner.
ErrandPatches ==
    {[status |-> "completed", completed_at |-> 1, completed_by |-> b] : b \in UserIds}
    \cup {[user_id |-> b] : b \in UserIds}

\* The column values a client sends in an update of a carpool ride: a
\* completion, a number of seats taken, or another driver.
CarpoolPatches ==
    {[status |-> "completed", completed_at |-> 1]}
    \cup {[seats_taken |-> n] : n \in SeatsTakenChoices}
    \cup {[driver_id |-> b] : b \in UserIds}

\* UPDATE travel_posts SET patch WHERE id = target, as caller c: the rows the
\* caller may see and update are changed; a changed row that fails the
\* policy (WITH CHECK defaults to USING) or a constraint aborts the statement.
UpdateTravelPost(c, target, patch) ==
    LET hit == {e \in travel_posts : /\ e.id = target
                                      /\ PolicyTravelSelect(c, e)
                                      /\ PolicyTravelUpdate(c, e)}
        ok == \A e \in hit : /\ PolicyTravelUpdate(c, SetColumns(e, patch))
                             /\ TravelRowOk(SetColumns(e, patch))
    IN  [error |-> ~ok,
         count |-> IF ok THEN Cardinality(hit) ELSE 0,
         rows |-> IF ok THEN (travel_posts \ hit) \cup {SetColumns(e, patch) : e \in hit}
                  ELSE travel_posts]

\* UPDATE errand_requests SET patch WHERE id = target, as caller c.
UpdateErrand(c, target, patch) ==
    LET hit == {e \in errand_requests : /\ e.id = target
                                         /\ PolicyErrandSelect(c, e)
                                         /\ PolicyErrandUpdate(c, e)}
        ok == \A e \in hit : /\ PolicyErrandUpdate(c, SetColumns(e, patch))
                             /\ ErrandRowOk(SetColumns(e, patch))
    IN  [error |-> ~ok,
         count |-> IF ok THEN Cardinality(hit) ELSE 0,
         rows |-> IF ok THEN (errand_requests \ hit) \cup {SetColumns(e, patch) : e \in hit}
                  ELSE errand_requests]

MutUpdateCarpoolNoCheck(c, target, patch) ==
    LET hit == {e \in carpool_rides : /\ e.id = target
                                       /\ PolicyCarpoolSelect(c, e)
                                       /\ PolicyCarpoolUpdate(c, e)}
        ok == \A e \in hit : CarpoolRowOk(SetColumns(e, patch))
    IN  [error |-> ~ok,
         count |-> IF ok THEN Cardinality(hit) ELSE 0,
         rows |-> IF ok THEN (carpool_rides \ hit) \cup {SetColumns(e, patch) : e \in hit}
                  ELSE carpool_rides]
\* UPDATE carpool_rides SET patch WHERE id = target, as caller c.
UpdateCarpool(c, target, patch) ==
    LET hit == {e \in carpool_rides : /\ e.id = target
                                       /\ PolicyCarpoolSelect(c, e)
                                       /\ PolicyCarpoolUpdate(c, e)}
        ok == \A e \in hit : /\ PolicyCarpoolUpdate(c, SetColumns(e, patch))
                             /\ CarpoolRowOk(SetColumns(e, patch))
    IN  [error |-> ~ok,
         count |-> IF ok THEN Cardinality(hit) ELSE 0,
         rows |-> IF ok THEN (carpool_rides \ hit) \cup {SetColumns(e, patch) : e \in hit}
                  ELSE carpool_rides]

\* supabase.from("travel_posts").update(patch).eq("id", target)
ClientUpdateTravelPost(c, target, patch) ==
    /\ LET u == UpdateTravelPost(c, target, patch)
       IN  /\ travel_posts' = u.rows
           /\ result' = Reply("client", "update", "travel_posts", c, target,
                              u.error, u.count, {patch})
    /\ UNCHANGED <<storeVars, errand_requests, carpool_rides, clock, viewVars>>

\* supabase.from("errand_requests").update(patch).eq("id", target)
ClientUpdateErrand(c, target, patch) ==
    /\ LET u == UpdateErrand(c, target, patch)
       IN  /\ errand_requests' = u.rows
           /\ result' = Reply("client", "update", "errand_requests", c, target,
                              u.error, u.count, {patch})
    /\ UNCHANGED <<storeVars, travel_posts, carpool_rides, clock, viewVars>>

\* supabase.from("carpool_rides").update(patch).eq("id", target)
ClientUpdateCarpool(c, target, patch) ==
    /\ LET u == UpdateCarpool(c, target, patch)
       IN  /\ carpool_rides' = u.rows
           /\ result' = Reply("client", "update", "carpool_rides", c, target,
                              u.error, u.count, {patch})
    /\ UNCHANGED <<storeVars, travel_posts, errand_requests, clock, viewVars>>

\* supabase.from("travel_posts").delete().eq("id", target)
ClientDeleteTravelPost(c, target) ==
    /\ LET hit == {e \in travel_posts : /\ e.id = target
                                         /\ PolicyTravelSelect(c, e)
                                         /\ PolicyTravelDelete(c, e)}
           d == [error |-> FALSE, count |-> Cardinality(hit)]
       IN  /\ travel_posts' = travel_posts \ hit
           /\ result' = Reply("client", "delete", "travel_posts", c, target,
                              d.error, d.count, {})
    /\ UNCHANGED <<storeVars, errand_requests, carpool_rides, clock, viewVars>>

\* supabase.from("errand_requests").delete().eq("id", target)
ClientDeleteErrand(c, target) ==
    /\ LET hit == {e \in errand_requests : /\ e.id = target
                                            /\ PolicyErrandSelect(c, e)
                                            /\ PolicyErrandDelete(c, e)}
           d == [error |-> FALSE, count |-> Cardinality(hit)]
       IN  /\ errand_requests' = errand_requests \ hit
           /\ result' = Reply("client", "delete", "errand_requests", c, target,
                              d.error, d.count, {})
    /\ UNCHANGED <<storeVars, travel_posts, carpool_rides, clock, viewVars>>

\* supabase.from("carpool_rides").delete().eq("id", target)
ClientDeleteCarpool(c, target) ==
    /\ LET hit == {e \in carpool_rides : /\ e.id = target
                                          /\ PolicyCarpoolSelect(c, e)
                                          /\ PolicyCarpoolDelete(c, e)}
           d == [error |-> FALSE, count |-> Cardinality(hit)]
       IN  /\ carpool_rides' = carpool_rides \ hit
           /\ result' = Reply("client", "delete", "carpool_rides", c, target,
                              d.error, d.count, {})
    /\ UNCHANGED <<storeVars, travel_posts, errand_requests, clock, viewVars>>

\* SELECT * FROM travel_posts, as caller c.
SelectTravelPosts(c) == {t \in travel_posts : PolicyTravelSelect(c, t)}

\* SELECT * FROM errand_requests, as caller c.
SelectErrands(c) == {e \in errand_requests : PolicyErrandSelect(c, e)}

\* SELECT * FROM carpool_rides, as caller c.
SelectCarpools(c) == {r \in carpool_rides : PolicyCarpoolSelect(c, r)}

\* supabase.from("travel_posts").select()
ClientSelectTravelPosts(c) ==
    /\ result' = Reply("client", "select", "travel_posts", c, NULL, FALSE,
                       Cardinality(SelectTravelPosts(c)), SelectTravelPosts(c))
    /\ UNCHANGED <<storeVars, listingVars, clock, viewVars>>

\* supabase.from("errand_requests").select()
ClientSelectErrands(c) ==
    /\ result' = Reply("client", "select", "errand_requests", c, NULL, FALSE,
                       Cardinality(SelectErrands(c)), SelectErrands(c))
    /\ UNCHANGED <<storeVars, listingVars, clock, viewVars>>

\* supabase.from("carpool_rides").select()
ClientSelectCarpools(c) ==
    /\ result' = Reply("client", "select", "carpool_rides", c, NULL, FALSE,
                       Cardinality(SelectCarpools(c)), SelectCarpools(c))
    /\ UNCHANGED <<storeVars, listingVars, clock, viewVars>>

\* ------------------------------------------- policies: activity_logs
\* "System can insert activity logs": FOR INSERT WITH CHECK (true).
PolicyLogsInsert(c, row) == TRUE

MutPolicyLogsSelectPlainEquality(c, row) ==
    row.user_id = c \/ has_role(c, "admin")
\* "Users can view their own activity logs": USING ((user_id = auth.uid()) OR
\* has_role(auth.uid(), 'admin')).  A NULL on either side of the comparison
\* makes it not true.
PolicyLogsSelect(c, row) ==
    (c # Anon /\ row.user_id # NULL /\ row.user_id = c) \/ has_role(c, "admin")

\* activity_logs has row security enabled and no UPDATE policy.
PolicyLogsUpdate(c, row) == FALSE

MutPolicyLogsDeleteOwn(c, row) == c # Anon /\ row.user_id = c
\* activity_logs has row security enabled and no DELETE policy.
PolicyLogsDelete(c, row) == FALSE

\* activity_logs: action_type text NOT NULL, entity_type text NOT NULL;
\* user_id and entity_id are nullable and reference nothing.
LogRowOk(row) == row.action_type # NoText /\ row.entity_type # NoText

\* ------------------------------------------- client: activity_logs
\* The actors a client may name in a log entry: any identity, or none.
LogActors == UserIds \cup {NULL}

\* supabase.from("activity_logs").insert({ user_id, action_type, ... })
ClientInsertLog(c, actor, action) ==
    /\ Len(activity_logs) < MaxLogs
    /\ LET row == [user_id |-> actor, action_type |-> action,
                   entity_type |-> "errand_request", entity_id |-> NULL]
           ok == PolicyLogsInsert(c, row) /\ LogRowOk(row)
       IN  /\ activity_logs' = IF ok THEN Append(activity_logs, row)
                               ELSE activity_logs
           /\ result' = Reply("client", "insert", "activity_logs", c, NULL, ~ok,
                              IF ok THEN 1 ELSE 0, {row})
    /\ UNCHANGED <<auth_users, profiles, user_roles, emergency_requests,
                   listingVars, clock, viewVars>>

\* The positions of the entries an update of entry `target` by caller c
\* applies to.
LogUpdateHits(c, target) ==
    {i \in DOMAIN activity_logs :
        /\ i = target
        /\ PolicyLogsSelect(c, activity_logs[i])
        /\ PolicyLogsUpdate(c, activity_logs[i])}

\* The positions of the entries a delete of entry `target` by caller c
\* applies to.
LogDeleteHits(c, target) ==
    {i \in DOMAIN activity_logs :
        /\ i = target
        /\ PolicyLogsSelect(c, activity_logs[i])
        /\ PolicyLogsDelete(c, activity_logs[i])}

\* supabase.from("activity_logs").update({ user_id: actor }).eq("id", target)
ClientUpdateLog(c, target, actor) ==
    /\ LET hit == LogUpdateHits(c, target)
       IN  /\ activity_logs' =
                [i \in DOMAIN activity_logs |->
                    IF i \in hit THEN [activity_logs[i] EXCEPT !.user_id = actor]
                    ELSE activity_logs[i]]
           /\ result' = Reply("client", "update", "activity_logs", c, target,
                              FALSE, Cardinality(hit), {})
    /\ UNCHANGED <<auth_users, profiles, user_roles, emergency_requests,
                   listingVars, clock, viewVars>>

\* supabase.from("activity_logs").delete().eq("id", target)
ClientDeleteLog(c, target) ==
    /\ LET hit == LogDeleteHits(c, target)
       IN  /\ activity_logs' =
                SelectSeq(activity_logs,
                          LAMBDA row : \A i \in hit : activity_logs[i] # row)
           /\ result' = Reply("client", "delete", "activity_logs", c, target,
                              FALSE, Cardinality(hit), {})
    /\ UNCHANGED <<auth_users, profiles, user_roles, emergency_requests,
                   listingVars, clock, viewVars>>

\* SELECT * FROM activity_logs, as caller c: the visible entries with their
\* positions.
SelectLogs(c) ==
    {[id |-> i, row |-> activity_logs[i]] :
        i \in {j \in DOMAIN activity_logs : PolicyLogsSelect(c, activity_logs[j])}}

\* supabase.from("activity_logs").select()
ClientSelectLogs(c) ==
    /\ result' = Reply("client", "select", "activity_logs", c, NULL, FALSE,
                       Cardinality(SelectLogs(c)), SelectLogs(c))
    /\ UNCHANGED <<storeVars, listingVars, clock, viewVars>>

\* ------------------------------------------- view: EmergencyHelp
MutSubmitRowResolved(s) ==
    [id |-> FreshId(emergency_requests), user_id |-> s, status |-> "resolved",
     resolved_at |-> NULL, resolved_by |-> NULL]
\* The row EmergencyHelp.onSubmit inserts.
SubmitRow(s) ==
    [id |-> FreshId(emergency_requests), user_id |-> s, status |-> "open",
     resolved_at |-> NULL, resolved_by |-> NULL]

\* The activity-log row a view inserts for an action on an entity.
LogRow(s, action, entity, id) ==
    [user_id |-> s, action_type |-> action, entity_type |-> entity,
     entity_id |-> id]

\* EmergencyHelp.onSubmit by session s.  `reachable` and `logReachable` tell
\* whether the insert and the log insert get through to the store.  The
\* insert is .insert(row).select().single(): the new row must pass the INSERT
\* check and be visible to the caller.
onSubmit(s, reachable, logReachable) ==
    IF s = Anon
    THEN /\ toast' = Toast(s, "Not authenticated")
         /\ lastRun' = Run("EmergencyHelp", s, NULL, TRUE, 0, "none")
         /\ UNCHANGED <<listingVars, storeVars, clock, result, emergencies,
                        resolvingId, mounted, pending, replies, applyLog, errands,
                        carpools, completing, completions, travelPosts>>
    ELSE /\ Cardinality(emergency_requests) < MaxSubmitted
         /\ LET row == SubmitRow(s)
                ok == /\ reachable
                      /\ PolicyEmergencyInsert(s, row)
                      /\ EmergencyRowOk(row)
                      /\ PolicyEmergencySelect(s, row)
                logged == ok /\ logReachable /\ PolicyLogsInsert(s, row)
            IN  /\ emergency_requests' =
                     IF ok THEN emergency_requests \cup {row} ELSE emergency_requests
                /\ activity_logs' =
                     IF logged
                     THEN Append(activity_logs,
                                 LogRow(s, "create", "emergency_request", row.id))
                     ELSE activity_logs
                /\ toast' = Toast(s, IF ok THEN "Help is on the way!"
                                     ELSE "Failed to submit request")
                /\ lastRun' = Run("EmergencyHelp", s, row.id, ~ok,
                                  IF ok THEN 1 ELSE 0,
                                  IF ~ok THEN "none"
                                  ELSE IF logged THEN "ok" ELSE "failed")
         /\ UNCHANGED <<listingVars, auth_users, profiles, user_roles, clock,
                        result, emergencies, resolvingId, mounted, pending, replies,
                        applyLog, errands, carpools, completing, completions, travelPosts>>

\* ------------------------------------------- view: AdminEmergencies
\* supabase.from("profiles").select("user_id, name, email").in("user_id", ids)
SelectProfilesIn(c, ids) ==
    {p \in profiles : p.user_id \in ids /\ PolicyProfilesSelect(c, p)}

\* fetchEmergencies: the rows the caller may see, each with the profile of
\* its owner when the profile select returned one (the empty set stands for
\* null).  The list is kept as a set: its display order is not modelled.
fetchEmergencies(s) ==
    LET data == SelectEmergencies(s)
        found == SelectProfilesIn(s, {e.user_id : e \in data})
    IN  {[id |-> e.id, status |-> e.status, resolved_at |-> e.resolved_at,
          user_id |-> e.user_id,
          profiles |-> {[name |-> p.name, email |-> p.email] :
                          p \in {q \in found : q.user_id = e.user_id}}] : e \in data}

\* The route /admin/emergencies is a ProtectedRoute with requireAdmin; on
\* mount the view runs fetchEmergencies.
MountAdminEmergencies(s) ==
    /\ s \in auth_users
    /\ has_role(s, "admin")
    /\ s \notin mounted
    /\ mounted' = mounted \cup {s}
    /\ emergencies' = [emergencies EXCEPT ![s] = fetchEmergencies(s)]
    /\ UNCHANGED <<listViewVars, listingVars, storeVars, clock, result, resolvingId, pending, replies, applyLog,
                   toast>>

\* The Refresh button: onClick={fetchEmergencies}.
Refresh(s) ==
    /\ s \in mounted
    /\ emergencies' = [emergencies EXCEPT ![s] = fetchEmergencies(s)]
    /\ UNCHANGED <<listViewVars, listingVars, storeVars, clock, result, resolvingId, mounted, pending, replies,
                   applyLog, toast>>

MutResolvePatchNoResolver(s, at) ==
    [status |-> "resolved", resolved_at |-> at, resolved_by |-> NULL]
\* The values handleResolve sends: status, new Date().toISOString(), user.id.
ResolvePatch(s, at) ==
    [status |-> "resolved", resolved_at |-> at, resolved_by |-> s]

\* The Resolve button of a row is rendered when the row's status in the list
\* is open, and is disabled while resolvingId is that row.
ResolveOffered(s, id) ==
    /\ \E e \in emergencies[s] : e.id = id /\ e.status = "open"
    /\ resolvingId[s] # id

\* handleResolve up to its await: the row is marked as resolving and the
\* update is sent.
handleResolve(s, id) ==
    /\ s \in mounted
    /\ ResolveOffered(s, id)
    /\ clock < MaxTime
    /\ clock' = clock + 1
    /\ resolvingId' = [resolvingId EXCEPT ![s] = id]
    /\ pending' = pending \cup {[caller |-> s, id |-> id,
                                 patch |-> ResolvePatch(s, clock + 1)]}
    /\ UNCHANGED <<listViewVars, listingVars, storeVars, result, emergencies, mounted, replies, applyLog, toast>>

\* The store executes a resolve update that reached it.
ExecuteResolve(q) ==
    /\ q \in pending
    /\ LET u == UpdateEmergency(q.caller, q.id, q.patch)
       IN  /\ emergency_requests' = u.rows
           /\ replies' = replies \cup {[caller |-> q.caller, id |-> q.id,
                                        patch |-> q.patch, error |-> u.error,
                                        count |-> u.count]}
           /\ applyLog' = Append(applyLog,
                  [caller |-> q.caller, id |-> q.id, patch |-> q.patch,
                   error |-> u.error, count |-> u.count,
                   overlapped |-> \E p \in pending \ {q} : p.id = q.id])
    /\ pending' = pending \ {q}
    /\ UNCHANGED <<listViewVars, listingVars, auth_users, profiles, user_roles, activity_logs, clock, result,
                   emergencies, resolvingId, mounted, toast>>

\* A resolve update that does not reach the store (network or store down):
\* supabase-js returns an error and no statement runs.
LoseResolve(q) ==
    /\ q \in pending
    /\ pending' = pending \ {q}
    /\ replies' = replies \cup {[caller |-> q.caller, id |-> q.id,
                                 patch |-> q.patch, error |-> TRUE, count |-> 0]}
    /\ UNCHANGED <<listViewVars, listingVars, storeVars, clock, result, emergencies, resolvingId, mounted,
                   applyLog, toast>>

\* handleResolve after its await: resolvingId is cleared, the outcome is
\* shown, and on success the list is fetched again.
handleResolveReturn(s, rep) ==
    /\ rep \in replies
    /\ rep.caller = s
    /\ replies' = replies \ {rep}
    /\ resolvingId' = [resolvingId EXCEPT ![s] = NULL]
    /\ toast' = Toast(s, IF rep.error THEN "Failed to resolve" ELSE "Request resolved")
    /\ emergencies' = IF rep.error THEN emergencies
                      ELSE [emergencies EXCEPT ![s] = fetchEmergencies(s)]
    /\ lastRun' = Run("AdminEmergencies", s, rep.id, rep.error, rep.count, "none")
    /\ UNCHANGED <<listingVars, storeVars, clock, result, mounted, pending, applyLog,
                   errands, carpools, completing, completions, travelPosts>>

\* ------------------------------------------- views: forms
MutTrimNone(t) == t
\* String.prototype.trim(): t without its leading and trailing white space.
Trim(t) ==
    LET inked == {i \in 1..Len(t) : t[i] # " "}
    IN  IF inked = {} THEN <<>>
        ELSE SubSeq(t, CHOOSE i \in inked : \A j \in inked : i <= j,
                       CHOOSE i \in inked : \A j \in inked : j <= i)

\* The state of the RequestErrand form's required inputs.
ErrandForms == [title : Texts, pickupLocation : Texts, deliveryLocation : Texts]

\* if (!title.trim() || !pickupLocation.trim() || !deliveryLocation.trim())
\* does not fire.
ErrandFormFilled(form) ==
    /\ Trim(form.title) # <<>>
    /\ Trim(form.pickupLocation) # <<>>
    /\ Trim(form.deliveryLocation) # <<>>

\* A RequestErrand form with every required input filled in.
FilledErrandForm ==
    [title |-> <<"G">>, pickupLocation |-> <<"G">>, deliveryLocation |-> <<"G">>]

\* The state of the Carpool form's required inputs.
CarpoolForms ==
    [fromLocation : Texts, toLocation : Texts, departureDate : Picks,
     departureTime : Picks]

\* if (!fromLocation.trim() || !toLocation.trim() || !departureDate ||
\* !departureTime) does not fire.
CarpoolFormFilled(form) ==
    /\ Trim(form.fromLocation) # <<>>
    /\ Trim(form.toLocation) # <<>>
    /\ form.departureDate # ""
    /\ form.departureTime # ""

\* A Carpool form with every required input filled in.
FilledCarpoolForm ==
    [fromLocation |-> <<"G">>, toLocation |-> <<"G">>, departureDate |-> "set",
     departureTime |-> "set"]

\* ------------------------------------------- views: store calls
\* A statement that does not reach the store (network or store down):
\* supabase-js returns an error and nothing runs.
Unreached(rows) == [error |-> TRUE, count |-> 0, rows |-> rows]

\* What the activity-log insert of a handler came to.
LogOutcome(s, row, logReachable) ==
    IF logReachable /\ PolicyLogsInsert(s, row) THEN "ok" ELSE "failed"

\* ------------------------------------------- view: PostTravel
MutSucceededOnlyIfLogged(error, logged) == ~error /\ logged # "failed"
\* if (error) { failure notification } else { success notification }: what
\* the activity-log insert returned is not looked at.
Succeeded(error, logged) == ~error

\* PostTravel.onSubmit by session s with a form that passed travelPostSchema.
\* The insert is .insert(row).select().single(): the new row must pass the
\* INSERT check and be visible to the caller.  The activity-log insert is
\* sent only when the insert returned a row and no error.
PostTravel_onSubmit(s, reachable, logReachable) ==
    IF s = Anon
    THEN /\ toast' = Toast(s, "Not authenticated")
         /\ lastRun' = Run("PostTravel", s, NULL, TRUE, 0, "none")
         /\ UNCHANGED <<storeVars, listingVars, clock, result, emergencies,
                        resolvingId, mounted, pending, replies, applyLog, errands,
                        carpools, completing, completions, travelPosts>>
    ELSE /\ Cardinality(PostedSinceStart) < MaxPosts
         /\ Len(activity_logs) < MaxLogs
         /\ LET row == [id |-> FreshId(travel_posts), user_id |-> s,
                        status |-> "active", created_at |-> NowAfter(travel_posts)]
                ok == /\ reachable
                      /\ PolicyTravelInsert(s, row)
                      /\ TravelRowOk(row)
                      /\ PolicyTravelSelect(s, row)
                log == LogRow(s, "create", "travel_post", row.id)
                logged == IF ~ok THEN "none" ELSE LogOutcome(s, log, logReachable)
            IN  /\ travel_posts' = IF ok THEN travel_posts \cup {row} ELSE travel_posts
                /\ activity_logs' = IF logged = "ok" THEN Append(activity_logs, log)
                                    ELSE activity_logs
                /\ toast' = Toast(s, IF Succeeded(~ok, logged) THEN "Travel posted!"
                                     ELSE "Failed to post travel")
                /\ lastRun' = Run("PostTravel", s, row.id, ~ok,
                                  IF ok THEN 1 ELSE 0, logged)
         /\ UNCHANGED <<auth_users, profiles, user_roles, emergency_requests,
                        errand_requests, carpool_rides, clock, result, emergencies,
                        resolvingId, mounted, pending, replies, applyLog, errands,
                        carpools, completing, completions, travelPosts>>

\* ------------------------------------------- view: Dashboard
\* .limit(10) of fetchTravelPosts.
DashboardLimit == 10

MutOrderByCreatedAtAsc(rows) ==
    [i \in 1..Cardinality(rows) |->
        CHOOSE r \in rows :
            Cardinality({q \in rows : q.created_at < r.created_at}) = i - 1]
\* .order("created_at", { ascending: false }): the rows as a list, latest
\* first.  (No two rows of the table carry the same created_at.)
OrderByCreatedAtDesc(rows) ==
    [i \in 1..Cardinality(rows) |->
        CHOOSE r \in rows :
            Cardinality({q \in rows : q.created_at > r.created_at}) = i - 1]

\* .limit(n): the first n elements of the list, or all of a shorter one.
Limit(list, n) == SubSeq(list, 1, IF Len(list) < n THEN Len(list) ELSE n)

\* What fetchTravelPosts puts in the list: the latest ten posts the caller
\* may select, latest first, each with the profile of its owner when the
\* profile select returned one (the empty set stands for null).
fetchTravelPosts(s) ==
    LET data == Limit(OrderByCreatedAtDesc(SelectTravelPosts(s)), DashboardLimit)
        found == SelectProfilesIn(s, {data[i].user_id : i \in DOMAIN data})
    IN  [i \in DOMAIN data |->
            [id |-> data[i].id, user_id |-> data[i].user_id,
             created_at |-> data[i].created_at,
             profiles |-> {[name |-> p.name, email |-> p.email] :
                             p \in {q \in found : q.user_id = data[i].user_id}}]]

\* useEffect(() => { fetchTravelPosts(); }, []): the Dashboard comes on
\* screen; the list is set when the select returned no error.
MountDashboard(s, reachable) ==
    /\ s \in auth_users
    /\ travelPosts' = [travelPosts EXCEPT
                          ![s] = IF reachable THEN fetchTravelPosts(s) ELSE @]
    /\ UNCHANGED <<storeVars, listingVars, clock, result, emergencies, resolvingId,
                   mounted, pending, replies, applyLog, toast, errands, carpools,
                   completing, completions, lastRun>>

\* ------------------------------------------- view: Errands
\* What fetchErrands puts in the list: every errand the caller may select,
\* each with the profile of its owner when the caller may select that profile
\* (the empty set stands for null).
fetchErrands(s) ==
    {[id |-> e.id, status |-> e.status, user_id |-> e.user_id,
      profiles |-> SelectProfilesIn(s, {e.user_id})] : e \in SelectErrands(s)}

\* useEffect(() => { fetchErrands(); }, []): the view comes on screen.
MountErrands(s) ==
    /\ errands' = [errands EXCEPT ![s] = fetchErrands(s)]
    /\ UNCHANGED <<storeVars, listingVars, clock, result, emergencies, resolvingId,
                   mounted, pending, replies, applyLog, toast, carpools,
                   completing, completions, travelPosts, lastRun>>

MutHelpOutOfferedToOwner(s, id) ==
    /\ \E e \in errands[s] : e.id = id /\ e.status = "open" /\ e.user_id = s
    /\ completing["Errands"][s] # id
\* The Help Out button: rendered on the cards of the open errands whose owner
\* is not the signed-in user, disabled while `completing` is that errand.
HelpOutOffered(s, id) ==
    /\ \E e \in errands[s] : e.id = id /\ e.status = "open" /\ e.user_id # s
    /\ completing["Errands"][s] # id

\* The values handleComplete sends: status, new Date().toISOString(), user.id.
CompletePatch(s, at) ==
    [status |-> "completed", completed_at |-> at, completed_by |-> s]

\* Errands.handleComplete up to setCompleting(null): the update is sent and
\* awaited, then the activity-log insert is sent and awaited, whatever the
\* update returned.
handleComplete(s, id, reachable, logReachable) ==
    /\ HelpOutOffered(s, id)
    /\ clock < MaxTime
    /\ Len(activity_logs) < MaxLogs
    /\ clock' = clock + 1
    /\ LET u == IF reachable THEN UpdateErrand(s, id, CompletePatch(s, clock + 1))
                ELSE Unreached(errand_requests)
           log == LogRow(s, "complete", "errand_request", id)
           logged == LogOutcome(s, log, logReachable)
       IN  /\ errand_requests' = u.rows
           /\ activity_logs' = IF logged = "ok" THEN Append(activity_logs, log)
                               ELSE activity_logs
           /\ completions' = completions \cup
                                {Run("Errands", s, id, u.error, u.count, logged)}
    /\ completing' = [completing EXCEPT !["Errands"][s] = id]
    /\ UNCHANGED <<auth_users, profiles, user_roles, emergency_requests,
                   travel_posts, carpool_rides, result, emergencies, resolvingId,
                   mounted, pending, replies, applyLog, toast, errands, carpools,
                   travelPosts, lastRun>>

\* Errands.handleComplete from setCompleting(null) on: the outcome is shown
\* and, when the update returned no error, the list is fetched again.
handleCompleteReturn(s, run) ==
    /\ run \in completions
    /\ run.view = "Errands" /\ run.session = s
    /\ completions' = completions \ {run}
    /\ completing' = [completing EXCEPT !["Errands"][s] = NULL]
    /\ toast' = Toast(s, IF run.error THEN "Failed to complete"
                         ELSE "Errand completed!")
    /\ lastRun' = run
    /\ errands' = IF run.error THEN errands
                  ELSE [errands EXCEPT ![s] = fetchErrands(s)]
    /\ UNCHANGED <<storeVars, listingVars, clock, result, emergencies, resolvingId,
                   mounted, pending, replies, applyLog, carpools, travelPosts>>

\* ------------------------------------------- view: RequestErrand
\* RequestErrand.handleSubmit by session s with the inputs of `form`: without
\* a user, or with a required input blank, it returns before any store
\* call; otherwise the insert is sent and awaited, then the activity-log
\* insert is sent and awaited, whatever the insert returned.
RequestErrand_handleSubmit(s, form, reachable, logReachable) ==
    IF s = Anon \/ ~ErrandFormFilled(form)
    THEN /\ toast' = Toast(s, IF s = Anon THEN "Not authenticated"
                              ELSE "Missing fields")
         /\ lastRun' = Run("RequestErrand", s, NULL, TRUE, 0, "none")
         /\ UNCHANGED <<storeVars, listingVars, clock, result, emergencies,
                        resolvingId, mounted, pending, replies, applyLog, errands,
                        carpools, completing, completions, travelPosts>>
    ELSE /\ Cardinality(errand_requests) < MaxPosts
         /\ Len(activity_logs) < MaxLogs
         /\ LET row == [id |-> FreshId(errand_requests), user_id |-> s,
                        status |-> "open", completed_at |-> NULL,
                        completed_by |-> NULL]
                ok == reachable /\ PolicyErrandInsert(s, row) /\ ErrandRowOk(row)
                log == LogRow(s, "create", "errand_request", NULL)
                logged == LogOutcome(s, log, logReachable)
            IN  /\ errand_requests' =
                     IF ok THEN errand_requests \cup {row} ELSE errand_requests
                /\ activity_logs' = IF logged = "ok" THEN Append(activity_logs, log)
                                    ELSE activity_logs
                /\ toast' = Toast(s, IF ok THEN "Errand request posted!"
                                     ELSE "Failed to submit")
                /\ lastRun' = Run("RequestErrand", s, row.id, ~ok,
                                  IF ok THEN 1 ELSE 0, logged)
         /\ UNCHANGED <<auth_users, profiles, user_roles, emergency_requests,
                        travel_posts, carpool_rides, clock, result, emergencies,
                        resolvingId, mounted, pending, replies, applyLog, errands,
                        carpools, completing, completions, travelPosts>>

\* ------------------------------------------- view: Carpools
\* What fetchCarpools puts in the list: every ride the caller may select,
\* each with the profile of its driver when the caller may select that
\* profile (the empty set stands for null).
fetchCarpools(s) ==
    {[id |-> r.id, status |-> r.status, driver_id |-> r.driver_id,
      seats_available |-> r.seats_available, seats_taken |-> r.seats_taken,
      profiles |-> SelectProfilesIn(s, {r.driver_id})] : r \in SelectCarpools(s)}

\* useEffect(() => { fetchCarpools(); }, []): the view comes on screen.
MountCarpools(s) ==
    /\ carpools' = [carpools EXCEPT ![s] = fetchCarpools(s)]
    /\ UNCHANGED <<storeVars, listingVars, clock, result, emergencies, resolvingId,
                   mounted, pending, replies, applyLog, toast, errands,
                   completing, completions, travelPosts, lastRun>>

MutMarkDoneOfferedToOthers(s, id) ==
    /\ \E r \in carpools[s] : r.id = id /\ r.status = "active" /\ r.driver_id # s
    /\ completing["Carpools"][s] # id
\* The Mark Done button: rendered on the cards of the active rides whose
\* driver is the signed-in user, disabled while `completing` is that ride.
MarkDoneOffered(s, id) ==
    /\ \E r \in carpools[s] : r.id = id /\ r.status = "active" /\ r.driver_id = s
    /\ completing["Carpools"][s] # id

\* The values handleMarkComplete sends: status, new Date().toISOString().
MarkCompletePatch(at) == [status |-> "completed", completed_at |-> at]

\* Carpools.handleMarkComplete up to setCompleting(null): the update is sent
\* and awaited, then the activity-log insert is sent and awaited, whatever
\* the update returned.
handleMarkComplete(s, id, reachable, logReachable) ==
    /\ MarkDoneOffered(s, id)
    /\ clock < MaxTime
    /\ Len(activity_logs) < MaxLogs
    /\ clock' = clock + 1
    /\ LET u == IF reachable THEN UpdateCarpool(s, id, MarkCompletePatch(clock + 1))
                ELSE Unreached(carpool_rides)
           log == LogRow(s, "complete", "carpool_ride", id)
           logged == LogOutcome(s, log, logReachable)
       IN  /\ carpool_rides' = u.rows
           /\ activity_logs' = IF logged = "ok" THEN Append(activity_logs, log)
                               ELSE activity_logs
           /\ completions' = completions \cup
                                {Run("Carpools", s, id, u.error, u.count, logged)}
    /\ completing' = [completing EXCEPT !["Carpools"][s] = id]
    /\ UNCHANGED <<auth_users, profiles, user_roles, emergency_requests,
                   travel_posts, errand_requests, result, emergencies, resolvingId,
                   mounted, pending, replies, applyLog, toast, errands, carpools,
                   travelPosts, lastRun>>

\* Carpools.handleMarkComplete from setCompleting(null) on: the outcome is
\* shown and, when the update returned no error, the list is fetched again.
handleMarkCompleteReturn(s, run) ==
    /\ run \in completions
    /\ run.view = "Carpools" /\ run.session = s
    /\ completions' = completions \ {run}
    /\ completing' = [completing EXCEPT !["Carpools"][s] = NULL]
    /\ toast' = Toast(s, IF run.error THEN "Failed to complete"
                         ELSE "Ride marked as completed!")
    /\ lastRun' = run
    /\ carpools' = IF run.error THEN carpools
                   ELSE [carpools EXCEPT ![s] = fetchCarpools(s)]
    /\ UNCHANGED <<storeVars, listingVars, clock, result, emergencies, resolvingId,
                   mounted, pending, replies, applyLog, errands, travelPosts>>

\* ------------------------------------------- view: Carpool
\* Carpool.handleSubmit by session s with the inputs of `form` and `seats`
\* seats offered: without a user, or with a required input blank, it returns
\* before any store call; otherwise the insert is sent and awaited, then the
\* activity-log insert is sent and awaited, whatever the insert returned.
Carpool_handleSubmit(s, form, seats, reachable, logReachable) ==
    IF s = Anon \/ ~CarpoolFormFilled(form)
    THEN /\ toast' = Toast(s, IF s = Anon THEN "Not authenticated"
                              ELSE "Missing fields")
         /\ lastRun' = Run("Carpool", s, NULL, TRUE, 0, "none")
         /\ UNCHANGED <<storeVars, listingVars, clock, result, emergencies,
                        resolvingId, mounted, pending, replies, applyLog, errands,
                        carpools, completing, completions, travelPosts>>
    ELSE /\ Cardinality(carpool_rides) < MaxPosts
         /\ Len(activity_logs) < MaxLogs
         /\ LET row == [id |-> FreshId(carpool_rides), driver_id |-> s,
                        seats_available |-> seats, seats_taken |-> 0,
                        status |-> "active", completed_at |-> NULL]
                ok == reachable /\ PolicyCarpoolInsert(s, row) /\ CarpoolRowOk(row)
                log == LogRow(s, "create", "carpool_ride", NULL)
                logged == LogOutcome(s, log, logReachable)
            IN  /\ carpool_rides' =
                     IF ok THEN carpool_rides \cup {row} ELSE carpool_rides
                /\ activity_logs' = IF logged = "ok" THEN Append(activity_logs, log)
                                    ELSE activity_logs
                /\ toast' = Toast(s, IF ok THEN "Carpool ride posted!"
                                     ELSE "Failed to submit")
                /\ lastRun' = Run("Carpool", s, row.id, ~ok,
                                  IF ok THEN 1 ELSE 0, logged)
         /\ UNCHANGED <<auth_users, profiles, user_roles, emergency_requests,
                        travel_posts, errand_requests, clock, result, emergencies,
                        resolvingId, mounted, pending, replies, applyLog, errands,
                        carpools, completing, completions, travelPosts>>

\* ------------------------------------------------- initial state
\* The store after the migration ran: every table empty, no view on screen.
Init ==
    /\ auth_users = {}
    /\ profiles = {}
    /\ user_roles = {}
    /\ emergency_requests = {}
    /\ travel_posts = {}
    /\ errand_requests = {}
    /\ carpool_rides = {}
    /\ activity_logs = <<>>
    /\ clock = 0
    /\ result = Reply("none", "none", "none", Anon, NULL, FALSE, 0, {})
    /\ emergencies = [s \in UserIds |-> {}]
    /\ resolvingId = [s \in UserIds |-> NULL]
    /\ mounted = {}
    /\ pending = {}
    /\ replies = {}
    /\ applyLog = <<>>
    /\ toast = Toast(Anon, "none")
    /\ errands = [s \in UserIds |-> {}]
    /\ carpools = [s \in UserIds |-> {}]
    /\ completing = [v \in Views |-> [s \in UserIds |-> NULL]]
    /\ completions = {}
    /\ travelPosts = [s \in UserIds |-> <<>>]
    /\ lastRun = NoRun

\* ------------------------------------------------- identities and roles
Next ==
    \/ \E u \in UserIds, email \in Emails, metaName \in MetaNames :
          SignUp(u, email, metaName)
    \/ \E u \in UserIds : ServiceGrantAdmin(u)
    \/ \E u \in UserIds : ServiceDeleteUser(u)
    \/ \E c \in Callers, u \in UserIds, name \in Names : ClientInsertProfile(c, u, name)
    \/ \E c \in Callers, t \in UserIds, name \in Names, owner \in UserIds :
          ClientUpdateProfile(c, t, name, owner)
    \/ \E c \in Callers, t \in UserIds : ClientDeleteProfile(c, t)
    \/ \E c \in Callers, u \in UserIds, role \in app_role : ClientInsertRole(c, u, role)
    \/ \E c \in Callers, t \in UserIds, role \in app_role : ClientUpdateRole(c, t, role)
    \/ \E c \in Callers, t \in UserIds : ClientDeleteRole(c, t)
    \/ \E c \in Callers : ClientSelectRoles(c)

Spec == Init /\ [][Next]_vars

EmergencyIds == 1..MaxEmergencies

\* ------------------------------------------------- provisioned store
\* The store once every identity has signed up (each with the profile and
\* the role row the trigger gave it) and the service role has granted admin
\* to some of them; no view is on screen yet.
ProvisionedInit ==
    /\ auth_users = UserIds
    /\ profiles = {[user_id |-> u, email |-> "s@campus", name |-> ""] :
                     u \in UserIds}
    /\ \E admins \in SUBSET UserIds :
          user_roles = {[user_id |-> u, role |-> "user"] : u \in UserIds}
                       \cup {[user_id |-> u, role |-> "admin"] : u \in admins}
    /\ emergency_requests = {}
    /\ travel_posts = {}
    /\ errand_requests = {}
    /\ carpool_rides = {}
    /\ activity_logs = <<>>
    /\ clock = 0
    /\ result = Reply("none", "none", "none", Anon, NULL, FALSE, 0, {})
    /\ emergencies = [s \in UserIds |-> {}]
    /\ resolvingId = [s \in UserIds |-> NULL]
    /\ mounted = {}
    /\ pending = {}
    /\ replies = {}
    /\ applyLog = <<>>
    /\ toast = Toast(Anon, "none")
    /\ errands = [s \in UserIds |-> {}]
    /\ carpools = [s \in UserIds |-> {}]
    /\ completing = [v \in Views |-> [s \in UserIds |-> NULL]]
    /\ completions = {}
    /\ travelPosts = [s \in UserIds |-> <<>>]
    /\ lastRun = NoRun

\* ------------------------------------------------- emergency store
\* The statements a client can send against emergency_requests.
EmergencyStoreNext ==
    \/ \E c \in Callers, owner \in UserIds, status \in {"open", "resolved"} :
          ClientInsertEmergency(c, owner, status)
    \/ \E c \in Callers, t \in EmergencyIds, patch \in EmergencyPatches :
          ClientUpdateEmergency(c, t, patch)
    \/ \E c \in Callers, t \in EmergencyIds : ClientDeleteEmergency(c, t)
    \/ \E c \in Callers : ClientSelectEmergencies(c)

EmergencyStoreSpec == ProvisionedInit /\ [][EmergencyStoreNext]_vars

\* ------------------------------------------------- emergency views
\* What the EmergencyHelp and AdminEmergencies views do.
EmergencyViewNext ==
    \/ \E s \in Callers, reachable \in BOOLEAN, logReachable \in BOOLEAN :
          onSubmit(s, reachable, logReachable)
    \/ \E s \in UserIds : MountAdminEmergencies(s)
    \/ \E s \in UserIds : Refresh(s)
    \/ \E s \in UserIds, id \in EmergencyIds : handleResolve(s, id)
    \/ \E q \in pending : ExecuteResolve(q)
    \/ \E q \in pending : LoseResolve(q)
    \/ \E s \in UserIds, rep \in replies : handleResolveReturn(s, rep)

EmergencyViewSpec == ProvisionedInit /\ [][EmergencyViewNext]_vars

\* ------------------------------------------------- listings store
PostIds == 1..MaxPosts

\* The statements a client can send against travel_posts, errand_requests
\* and carpool_rides.
ListingNext ==
    \/ \E c \in Callers, owner \in UserIds : ClientInsertTravelPost(c, owner)
    \/ \E c \in Callers, owner \in UserIds : ClientInsertErrand(c, owner)
    \/ \E c \in Callers, driver \in UserIds, seats \in SeatChoices :
          ClientInsertCarpool(c, driver, seats)
    \/ \E c \in Callers : ClientSelectTravelPosts(c)
    \/ \E c \in Callers : ClientSelectErrands(c)
    \/ \E c \in Callers : ClientSelectCarpools(c)
    \/ \E c \in Callers, t \in PostIds, patch \in TravelPatches :
          ClientUpdateTravelPost(c, t, patch)
    \/ \E c \in Callers, t \in PostIds, patch \in ErrandPatches :
          ClientUpdateErrand(c, t, patch)
    \/ \E c \in Callers, t \in PostIds, patch \in CarpoolPatches :
          ClientUpdateCarpool(c, t, patch)
    \/ \E c \in Callers, t \in PostIds : ClientDeleteTravelPost(c, t)
    \/ \E c \in Callers, t \in PostIds : ClientDeleteErrand(c, t)
    \/ \E c \in Callers, t \in PostIds : ClientDeleteCarpool(c, t)

ListingSpec == ProvisionedInit /\ [][ListingNext]_vars

\* ------------------------------------------------- errands
\* Errand requests: the RequestErrand and Errands views, and the update a
\* client may send by hand.
ErrandNext ==
    \/ \E s \in Callers, reachable \in BOOLEAN, logReachable \in BOOLEAN :
          RequestErrand_handleSubmit(s, FilledErrandForm, reachable, logReachable)
    \/ \E s \in UserIds : MountErrands(s)
    \/ \E s \in UserIds, id \in PostIds, reachable \in BOOLEAN,
          logReachable \in BOOLEAN : handleComplete(s, id, reachable, logReachable)
    \/ \E s \in UserIds, run \in completions : handleCompleteReturn(s, run)
    \/ \E c \in UserIds, t \in PostIds,
          patch \in {p \in ErrandPatches : "user_id" \notin DOMAIN p} :
          ClientUpdateErrand(c, t, patch)

ErrandSpec == ProvisionedInit /\ [][ErrandNext]_vars

\* ------------------------------------------------- errand views
\* What the views do on errand requests: the RequestErrand form and the
\* Errands list with its Help Out button.
ErrandViewNext ==
    \/ \E s \in Callers, reachable \in BOOLEAN, logReachable \in BOOLEAN :
          RequestErrand_handleSubmit(s, FilledErrandForm, reachable, logReachable)
    \/ \E s \in UserIds : MountErrands(s)
    \/ \E s \in UserIds, id \in PostIds, reachable \in BOOLEAN,
          logReachable \in BOOLEAN : handleComplete(s, id, reachable, logReachable)
    \/ \E s \in UserIds, run \in completions : handleCompleteReturn(s, run)

ErrandViewSpec == ProvisionedInit /\ [][ErrandViewNext]_vars

\* ------------------------------------------------- carpools
\* Carpool rides: the Carpool and Carpools views, and the update a client
\* may send by hand.
CarpoolNext ==
    \/ \E s \in Callers, seats \in SeatChoices, reachable \in BOOLEAN,
          logReachable \in BOOLEAN :
          Carpool_handleSubmit(s, FilledCarpoolForm, seats, reachable, logReachable)
    \/ \E s \in UserIds : MountCarpools(s)
    \/ \E s \in UserIds, id \in PostIds, reachable \in BOOLEAN,
          logReachable \in BOOLEAN :
          handleMarkComplete(s, id, reachable, logReachable)
    \/ \E s \in UserIds, run \in completions : handleMarkCompleteReturn(s, run)
    \/ \E c \in UserIds, t \in PostIds,
          patch \in {p \in CarpoolPatches : "driver_id" \notin DOMAIN p} :
          ClientUpdateCarpool(c, t, patch)

CarpoolSpec == ProvisionedInit /\ [][CarpoolNext]_vars

\* ------------------------------------------------- activity log store
LogIds == 1..MaxLogs

\* The statements a client can send against activity_logs.
LogNext ==
    \/ \E c \in Callers, actor \in LogActors, action \in {"create", NoText} :
          ClientInsertLog(c, actor, action)
    \/ \E c \in Callers, t \in LogIds, actor \in LogActors :
          ClientUpdateLog(c, t, actor)
    \/ \E c \in Callers, t \in LogIds : ClientDeleteLog(c, t)
    \/ \E c \in Callers : ClientSelectLogs(c)

LogSpec == ProvisionedInit /\ [][LogNext]_vars

\* ------------------------------------------------- mutate, then log
\* Handlers that write a row and then an activity-log entry: the create
\* forms of travel posts, emergency requests and rides, and the Mark Done of
\* Carpools.
MutateThenLogNext ==
    \/ \E s \in Callers, reachable \in BOOLEAN, logReachable \in BOOLEAN :
          PostTravel_onSubmit(s, reachable, logReachable)
    \/ \E s \in Callers, reachable \in BOOLEAN, logReachable \in BOOLEAN :
          onSubmit(s, reachable, logReachable)
    \/ \E s \in Callers, seats \in SeatChoices, reachable \in BOOLEAN,
          logReachable \in BOOLEAN :
          Carpool_handleSubmit(s, FilledCarpoolForm, seats, reachable, logReachable)
    \/ \E s \in UserIds : MountCarpools(s)
    \/ \E s \in UserIds, id \in PostIds, reachable \in BOOLEAN,
          logReachable \in BOOLEAN :
          handleMarkComplete(s, id, reachable, logReachable)
    \/ \E s \in UserIds, run \in completions : handleMarkCompleteReturn(s, run)

MutateThenLogSpec == ProvisionedInit /\ [][MutateThenLogNext]_vars

\* ------------------------------------------------- create forms
\* The errand and carpool forms, submitted with any state of their required
\* inputs, and the travel form submitted without a user.
CreateFormNext ==
    \/ \E s \in Callers, form \in ErrandForms, reachable \in BOOLEAN,
          logReachable \in BOOLEAN :
          RequestErrand_handleSubmit(s, form, reachable, logReachable)
    \/ \E s \in Callers, form \in CarpoolForms, seats \in SeatChoices,
          reachable \in BOOLEAN, logReachable \in BOOLEAN :
          Carpool_handleSubmit(s, form, seats, reachable, logReachable)
    \/ \E reachable \in BOOLEAN, logReachable \in BOOLEAN :
          PostTravel_onSubmit(Anon, reachable, logReachable)

CreateFormSpec == ProvisionedInit /\ [][CreateFormNext]_vars

\* ------------------------------------------------- dashboard
\* k travel posts made before the initial state, by the identities in turn.
OlderPosts(k) ==
    {[id |-> 0 - i, user_id |-> (i % MaxUsers) + 1, status |-> "active",
      created_at |-> 0 - i] : i \in 1..k}

\* The provisioned store with up to MaxOlder travel posts already in it.
DashboardInit ==
    /\ auth_users = UserIds
    /\ profiles = {[user_id |-> u, email |-> "s@campus", name |-> ""] :
                     u \in UserIds}
    /\ \E admins \in SUBSET UserIds :
          user_roles = {[user_id |-> u, role |-> "user"] : u \in UserIds}
                       \cup {[user_id |-> u, role |-> "admin"] : u \in admins}
    /\ emergency_requests = {}
    /\ \E k \in 0..MaxOlder : travel_posts = OlderPosts(k)
    /\ errand_requests = {}
    /\ carpool_rides = {}
    /\ activity_logs = <<>>
    /\ clock = 0
    /\ result = Reply("none", "none", "none", Anon, NULL, FALSE, 0, {})
    /\ emergencies = [s \in UserIds |-> {}]
    /\ resolvingId = [s \in UserIds |-> NULL]
    /\ mounted = {}
    /\ pending = {}
    /\ replies = {}
    /\ applyLog = <<>>
    /\ toast = Toast(Anon, "none")
    /\ errands = [s \in UserIds |-> {}]
    /\ carpools = [s \in UserIds |-> {}]
    /\ completing = [v \in Views |-> [s \in UserIds |-> NULL]]
    /\ completions = {}
    /\ travelPosts = [s \in UserIds |-> <<>>]
    /\ lastRun = NoRun

\* The PostTravel form and the Dashboard.
DashboardNext ==
    \/ \E s \in Callers, reachable \in BOOLEAN, logReachable \in BOOLEAN :
          PostTravel_onSubmit(s, reachable, logReachable)
    \/ \E s \in UserIds, reachable \in BOOLEAN : MountDashboard(s, reachable)

DashboardSpec == DashboardInit /\ [][DashboardNext]_vars

\* ------------------------------------------------- profile lookup
\* The session whose screens are followed (the identities are alike but for
\* the admin role, which the initial state gives to any of them).
Viewers == {CHOOSE u \in UserIds : \A v \in UserIds : u <= v}

\* The four listing views over rows that signed-in identities inserted, the
\* identities renaming themselves in between.
ProfileLookupNext ==
    \/ \E c \in UserIds : ClientInsertTravelPost(c, c)
    \/ \E c \in UserIds : ClientInsertErrand(c, c)
    \/ \E c \in UserIds, seats \in SeatChoices : ClientInsertCarpool(c, c, seats)
    \/ \E c \in UserIds : ClientInsertEmergency(c, c, "open")
    \/ \E c \in UserIds, name \in Names : ClientUpdateProfile(c, c, name, c)
    \/ \E s \in Viewers, reachable \in BOOLEAN : MountDashboard(s, reachable)
    \/ \E s \in Viewers : MountErrands(s)
    \/ \E s \in Viewers : MountCarpools(s)
    \/ \E s \in Viewers : MountAdminEmergencies(s)
    \/ \E s \in Viewers : Refresh(s)

ProfileLookupSpec == ProvisionedInit /\ [][ProfileLookupNext]_vars

\* ------------------------------------------------- resolve slot
\* AdminEmergencies over requests that signed-in identities inserted: the
\* admin may click Resolve on one row while the update of another is under
\* way.
ResolveSlotNext ==
    \/ \E c \in UserIds : ClientInsertEmergency(c, c, "open")
    \/ \E s \in UserIds : MountAdminEmergencies(s)
    \/ \E s \in UserIds, id \in EmergencyIds : handleResolve(s, id)
    \/ \E q \in pending : ExecuteResolve(q)
    \/ \E q \in pending : LoseResolve(q)
    \/ \E s \in UserIds, rep \in replies : handleResolveReturn(s, rep)

ResolveSlotSpec == ProvisionedInit /\ [][ResolveSlotNext]_vars

\* ------------------------------------------------- accounts
\* Identities that own rows and are then deleted: the inserts a client can
\* send on the four owned tables, the resolve and delete of emergency
\* requests, and the deletion of an identity by the service role.  (An id,
\* being a fresh uuid, is not given to a later identity.)
AccountNext ==
    \/ \E c \in Callers, owner \in UserIds : ClientInsertTravelPost(c, owner)
    \/ \E c \in Callers, owner \in UserIds : ClientInsertErrand(c, owner)
    \/ \E c \in Callers, driver \in UserIds, seats \in SeatChoices :
          ClientInsertCarpool(c, driver, seats)
    \/ \E c \in Callers, owner \in UserIds : ClientInsertEmergency(c, owner, "open")
    \/ \E c \in Callers, t \in EmergencyIds, patch \in EmergencyPatches :
          ClientUpdateEmergency(c, t, patch)
    \/ \E c \in Callers, t \in EmergencyIds : ClientDeleteEmergency(c, t)
    \/ \E u \in UserIds : ServiceDeleteUser(u)

AccountSpec == ProvisionedInit /\ [][AccountNext]_vars

\* ------------------------------------------------- claims: identities
\* u holds the admin role: user_roles has the row (u, admin).
HoldsAdmin(u) == \E r \in user_roles : r.user_id = u /\ r.role = "admin"

AdminSet == {u \in UserIds : HoldsAdmin(u)}

\* C1: every identity that exists has exactly one profile row and exactly one
\* role row with role = user, from its creation on and whatever the clients
\* do afterwards.
C1_OneProfileOneUserRole ==
    \A u \in auth_users :
        /\ Cardinality({p \in profiles : p.user_id = u}) = 1
        /\ Cardinality({r \in user_roles : r.user_id = u /\ r.role = "user"}) = 1

\* An identity exists and has just tried to delete its own profile.
C1_Witness ==
    /\ result.kind = "client" /\ result.op = "delete" /\ result.table = "profiles"
    /\ result.caller \in auth_users
    /\ result.target = result.caller

\* C10: no client statement changes who holds the admin role, and a client
\* insert, update or delete on user_roles changes no row of it.
C10_NoRoleEscalation ==
    [][result'.kind = "client" =>
          /\ AdminSet' = AdminSet
          /\ (result'.table = "user_roles" => user_roles' = user_roles)]_vars

\* A signed-in identity that is no admin has just tried to insert the admin
\* role for itself, and was refused.
C10_Witness ==
    /\ result.kind = "client" /\ result.op = "insert" /\ result.table = "user_roles"
    /\ result.caller \in auth_users
    /\ \E row \in result.data : row.user_id = result.caller /\ row.role = "admin"
    /\ result.error
    /\ ~HoldsAdmin(result.caller)

\* ------------------------------------------------- claims: emergency store
\* The last statement was a client statement `op` on emergency_requests.
OnEmergency(r, op) ==
    r.kind = "client" /\ r.table = "emergency_requests" /\ r.op = op

\* C2: an update of an emergency request by a caller who is neither an admin
\* nor the owner of the row touches no row: the table is unchanged and the
\* statement reports zero rows.
C2_NonAdminNonOwnerUpdateDenied ==
    [][(/\ OnEmergency(result', "update")
        /\ ~HoldsAdmin(result'.caller)
        /\ \E e \in emergency_requests :
              e.id = result'.target /\ e.user_id # result'.caller)
       => (emergency_requests' = emergency_requests /\ result'.count = 0)]_vars

\* A signed-in caller without the admin role has just tried to update a row
\* that exists and belongs to someone else.
C2_Witness ==
    /\ OnEmergency(result, "update")
    /\ result.caller \in auth_users
    /\ ~HoldsAdmin(result.caller)
    /\ \E e \in emergency_requests :
          e.id = result.target /\ e.user_id # result.caller
    /\ result.count = 0

\* C3: an update or a delete of an emergency request by a caller without the
\* admin role, the owner of the row included, leaves the table unchanged.
C3_OnlyAdminsMutate ==
    [][(/\ (OnEmergency(result', "update") \/ OnEmergency(result', "delete"))
        /\ ~HoldsAdmin(result'.caller))
       => (emergency_requests' = emergency_requests /\ result'.count = 0)]_vars

\* The owner of a row, who is no admin, has just tried to delete it.
C3_Witness ==
    /\ OnEmergency(result, "delete")
    /\ ~HoldsAdmin(result.caller)
    /\ \E e \in emergency_requests :
          e.id = result.target /\ e.user_id = result.caller

\* C9: a select on emergency_requests returns to a caller without the admin
\* role exactly the rows it owns, and to an admin every row.
C9_SelectOwnOrAll ==
    OnEmergency(result, "select") =>
        result.data = IF HoldsAdmin(result.caller)
                      THEN emergency_requests
                      ELSE {e \in emergency_requests : e.user_id = result.caller}

\* A caller without the admin role has just selected while rows of another
\* identity exist next to its own.
C9_Witness ==
    /\ OnEmergency(result, "select")
    /\ ~HoldsAdmin(result.caller)
    /\ \E e \in emergency_requests : e.user_id = result.caller
    /\ \E e \in emergency_requests : e.user_id # result.caller
    /\ result.data # {}

\* ------------------------------------------------- claims: emergency views
\* The store has just executed a resolve update sent by handleResolve.
Executed == Len(applyLog') = Len(applyLog) + 1

\* The resolve update the store executed last.
LastApplied == applyLog'[Len(applyLog')]

\* C4: a request created through EmergencyHelp starts with status open (and
\* no resolver); when the store executes an admin's resolve of an open
\* request, the request gets status resolved, the admin as resolved_by and
\* the time the admin sent as resolved_at.
C4_SubmitOpenThenResolved ==
    [][/\ \A e \in emergency_requests' :
             (\A f \in emergency_requests : f.id # e.id)
                => e.status = "open" /\ e.resolved_at = NULL /\ e.resolved_by = NULL
       /\ (/\ Executed
           /\ HoldsAdmin(LastApplied.caller)
           /\ \E f \in emergency_requests :
                 f.id = LastApplied.id /\ f.status = "open")
          => \E e \in emergency_requests' :
                /\ e.id = LastApplied.id
                /\ e.status = "resolved"
                /\ e.resolved_by = LastApplied.caller
                /\ e.resolved_at # NULL
                /\ e.resolved_at = LastApplied.patch.resolved_at]_vars

\* A request that user A submitted through the view (its creation is in the
\* activity log) has been resolved by an admin other than A.
C4_Witness ==
    /\ Len(applyLog) = 1
    /\ \E e \in emergency_requests :
          /\ e.status = "resolved"
          /\ e.resolved_by # e.user_id
          /\ HoldsAdmin(e.resolved_by)
          /\ e.resolved_at # NULL
          /\ \E i \in 1..Len(activity_logs) :
                /\ activity_logs[i].entity_id = e.id
                /\ activity_logs[i].user_id = e.user_id

\* C5: no step of the views takes an emergency request from resolved back to
\* open.
C5_ResolvedStaysResolved ==
    [][\A e \in emergency_requests : e.status = "resolved" =>
          \A f \in emergency_requests' : f.id = e.id => f.status = "resolved"]_vars

\* A request was resolved, then a second resolve of it was executed, and it is
\* still resolved.
C5_Witness ==
    /\ Len(applyLog) = 2
    /\ applyLog[1].id = applyLog[2].id
    /\ applyLog[1].count = 1
    /\ \E e \in emergency_requests : e.id = applyLog[2].id /\ e.status = "resolved"

\* C6: a resolve by an admin of a request that is already resolved is executed
\* without error on that one row, which stays resolved and takes the
\* resolved_by and resolved_at of this second call.
C6_SecondResolveOverwrites ==
    [][(/\ Executed
        /\ HoldsAdmin(LastApplied.caller)
        /\ \E f \in emergency_requests :
              f.id = LastApplied.id /\ f.status = "resolved")
       => /\ ~LastApplied.error
          /\ LastApplied.count = 1
          /\ \E e \in emergency_requests' :
                /\ e.id = LastApplied.id
                /\ e.status = "resolved"
                /\ e.resolved_by = LastApplied.caller
                /\ e.resolved_at = LastApplied.patch.resolved_at]_vars

\* A second admin resolved, at a later time, a request another admin had
\* resolved, and the row now names the second admin and the later time.
C6_Witness ==
    /\ Len(applyLog) = 2
    /\ applyLog[1].id = applyLog[2].id
    /\ applyLog[1].caller # applyLog[2].caller
    /\ applyLog[1].patch.resolved_at # applyLog[2].patch.resolved_at
    /\ ~applyLog[2].error
    /\ \E e \in emergency_requests :
          /\ e.id = applyLog[2].id
          /\ e.resolved_by = applyLog[2].caller
          /\ e.resolved_at = applyLog[2].patch.resolved_at

\* The position in applyLog of the last update that changed row id.
LastWrite(id) ==
    LET hits == {i \in 1..Len(applyLog) : applyLog[i].id = id /\ applyLog[i].count = 1}
    IN  IF hits = {} THEN 0
        ELSE CHOOSE i \in hits : \A j \in hits : j <= i

\* C7: every resolve update of an admin that the store executes succeeds on
\* its row, whether or not the row was resolved before, and the row holds
\* the resolved_by and resolved_at of the update executed last.
C7_LastWriteWins ==
    /\ \A i \in 1..Len(applyLog) :
          HoldsAdmin(applyLog[i].caller) =>
              ~applyLog[i].error /\ applyLog[i].count = 1
    /\ \A e \in emergency_requests :
          LastWrite(e.id) # 0 =>
              /\ e.resolved_by = applyLog[LastWrite(e.id)].caller
              /\ e.resolved_at = applyLog[LastWrite(e.id)].patch.resolved_at

\* Two admins had a resolve of the same request in flight at the same time
\* and the store has executed both.
C7_Witness ==
    /\ Len(applyLog) = 2
    /\ applyLog[1].id = applyLog[2].id
    /\ applyLog[1].caller # applyLog[2].caller
    /\ applyLog[1].overlapped
    /\ HoldsAdmin(applyLog[1].caller) /\ HoldsAdmin(applyLog[2].caller)

\* ------------------------------------------------- claims: listings
\* C8: a select on travel_posts, errand_requests or carpool_rides by a
\* signed-in caller returns every row of the table, whoever owns it; on
\* errand_requests and carpool_rides so does a select without a session.
C8_ListingSelectReturnsAll ==
    (result.kind = "client" /\ result.op = "select") =>
        /\ (result.table = "travel_posts" /\ result.caller \in auth_users)
              => result.data = travel_posts
        /\ result.table = "errand_requests" => result.data = errand_requests
        /\ result.table = "carpool_rides" => result.data = carpool_rides

\* A signed-in caller has just selected travel_posts and got a row that
\* belongs to another identity, while an errand and a ride of others exist.
C8_Witness ==
    /\ result.kind = "client" /\ result.op = "select"
    /\ result.table = "travel_posts"
    /\ result.caller \in auth_users
    /\ \E t \in result.data : t.user_id # result.caller
    /\ \E e \in errand_requests : e.user_id # result.caller
    /\ \E r \in carpool_rides : r.driver_id # result.caller

\* The owner field of a listing row: driver_id of a ride, user_id otherwise.
OwnerOf(row) == IF "driver_id" \in DOMAIN row THEN row.driver_id ELSE row.user_id

\* C11: on travel_posts, errand_requests and carpool_rides a client insert
\* adds a row only when the row's owner field is the caller, and a client
\* update or delete leaves every row the caller does not own as it was.
C11_OwnershipPolicies ==
    [][result'.kind = "client" =>
          /\ result'.op = "insert" =>
                \A r \in (travel_posts' \ travel_posts)
                         \cup (errand_requests' \ errand_requests)
                         \cup (carpool_rides' \ carpool_rides) :
                    OwnerOf(r) = result'.caller
          /\ result'.op \in {"update", "delete"} =>
                /\ \A r \in travel_posts :
                      OwnerOf(r) # result'.caller => r \in travel_posts'
                /\ \A r \in errand_requests :
                      OwnerOf(r) # result'.caller => r \in errand_requests'
                /\ \A r \in carpool_rides :
                      OwnerOf(r) # result'.caller => r \in carpool_rides']_vars

\* A signed-in caller has just sent an update to an errand request of
\* another identity; no row was affected and the errand is still open.
C11_Witness ==
    /\ result.kind = "client" /\ result.op = "update"
    /\ result.table = "errand_requests"
    /\ result.caller \in auth_users
    /\ result.count = 0
    /\ \E e \in errand_requests :
          /\ e.id = result.target
          /\ e.user_id # result.caller
          /\ e.status = "open"

\* The rows of the three listing tables, by table name.
ListingRows ==
    [travel_posts |-> travel_posts, errand_requests |-> errand_requests,
     carpool_rides |-> carpool_rides]

\* The update sets the owner column (user_id or driver_id).
SetsOwner(patch) == "user_id" \in DOMAIN patch \/ "driver_id" \in DOMAIN patch

\* C27: no client update changes the owner field of a travel post, errand
\* request or carpool ride; an update by the owner that sets user_id /
\* driver_id to another identity is rejected with an error and changes no
\* row.
C27_OwnerNeverChanges ==
    [][(/\ result'.kind = "client" /\ result'.op = "update"
        /\ result'.table \in DOMAIN ListingRows)
       => /\ \A r \in ListingRows[result'.table], q \in ListingRows'[result'.table] :
                r.id = q.id => OwnerOf(q) = OwnerOf(r)
          /\ \A p \in result'.data, r \in ListingRows[result'.table] :
                (/\ r.id = result'.target /\ OwnerOf(r) = result'.caller
                 /\ SetsOwner(p) /\ OwnerOf(p) # OwnerOf(r))
                => result'.error /\ ListingRows' = ListingRows]_vars

\* The driver of a ride has just sent an update that names another identity
\* as driver, and the store refused it.
C27_Witness ==
    /\ result.kind = "client" /\ result.op = "update"
    /\ result.table = "carpool_rides" /\ result.error
    /\ \E r \in carpool_rides, p \in result.data :
          /\ r.id = result.target /\ r.driver_id = result.caller
          /\ SetsOwner(p) /\ p.driver_id # r.driver_id

\* ------------------------------------------------- claims: errands
\* Errand id is, after the step, completed by identity c at time t.
ErrandCompletedBy(id, c, t) ==
    \E e \in errand_requests' :
        /\ e.id = id
        /\ e.status = "completed"
        /\ e.completed_at = t
        /\ e.completed_by = c

\* C12: the completion update of an errand (status completed, a timestamp,
\* completed_by the caller), sent by the Errands view or by hand, sets these
\* three columns when the caller owns the errand and leaves the row as it
\* was when the caller does not.
C12_ErrandCompletion ==
    [][/\ \A run \in completions' \ completions :
             run.view = "Errands" =>
                \A e \in errand_requests :
                    e.id = run.id =>
                       IF e.user_id = run.session /\ ~run.error
                       THEN ErrandCompletedBy(e.id, run.session, clock')
                       ELSE e \in errand_requests'
       /\ (/\ result' # result
           /\ result'.op = "update"
           /\ result'.table = "errand_requests")
          => \A p \in result'.data :
                ("completed_by" \in DOMAIN p /\ p.completed_by = result'.caller) =>
                   \A e \in errand_requests :
                       e.id = result'.target =>
                          IF e.user_id = result'.caller
                          THEN ErrandCompletedBy(e.id, result'.caller, p.completed_at)
                          ELSE e \in errand_requests']_vars

\* Another user's Help Out on an errand came back with no row changed, and
\* then the owner sent the same update by hand, which completed the errand
\* in the owner's name.
C12_Witness ==
    /\ lastRun.view = "Errands" /\ lastRun.count = 0 /\ ~lastRun.error
    /\ result.op = "update" /\ result.table = "errand_requests"
    /\ result.count = 1
    /\ \E e \in errand_requests :
          /\ e.id = lastRun.id
          /\ e.user_id # lastRun.session
          /\ e.user_id = result.caller
          /\ e.status = "completed"
          /\ e.completed_by = e.user_id
          /\ e.completed_at # NULL

\* ------------------------------------------------- claims: carpools
\* Ride id is, after the step, completed at time t.
RideCompletedAt(id, t) ==
    \E r \in carpool_rides' :
        r.id = id /\ r.status = "completed" /\ r.completed_at = t

\* C13: the completion update of a ride sets status completed and the
\* timestamp when the driver sends it and changes nothing when another
\* caller sends it; every Mark Done the Carpools view sends is for a ride
\* listed as active and comes from the ride's driver, so each one that
\* reaches the store completes the ride.
C13_CarpoolCompletion ==
    [][/\ \A run \in completions' \ completions :
             run.view = "Carpools" =>
                /\ \E l \in carpools[run.session] :
                      l.id = run.id /\ l.status = "active"
                /\ \A r \in carpool_rides :
                      r.id = run.id =>
                         /\ r.driver_id = run.session
                         /\ ~run.error =>
                               run.count = 1 /\ RideCompletedAt(r.id, clock')
                         /\ run.error => r \in carpool_rides'
       /\ (/\ result' # result
           /\ result'.op = "update"
           /\ result'.table = "carpool_rides")
          => \A p \in result'.data :
                ("status" \in DOMAIN p /\ p.status = "completed") =>
                   \A r \in carpool_rides :
                       r.id = result'.target =>
                          IF r.driver_id = result'.caller
                          THEN RideCompletedAt(r.id, p.completed_at)
                          ELSE r \in carpool_rides']_vars

\* The driver's Mark Done came back having completed the ride, after another
\* user's hand-sent completion of the same ride changed no row.
C13_Witness ==
    /\ lastRun.view = "Carpools" /\ lastRun.count = 1 /\ ~lastRun.error
    /\ result.op = "update" /\ result.table = "carpool_rides"
    /\ result.count = 0 /\ result.target = lastRun.id
    /\ result.caller # lastRun.session
    /\ \E p \in result.data : "status" \in DOMAIN p
    /\ \E r \in carpool_rides :
          /\ r.id = lastRun.id
          /\ r.driver_id = lastRun.session
          /\ r.status = "completed"
          /\ r.completed_at # NULL

\* ------------------------------------------------- claims: notifications
\* C14: when the update of a complete handler failed (it returned an error,
\* or the row policy let it change no row), the notification the handler
\* shows is the failure one.
C14_FailedTransitionSurfaces ==
    (/\ lastRun.view \in {"Errands", "Carpools"}
     /\ (lastRun.error \/ lastRun.count = 0))
    => toast = Toast(lastRun.session, "Failed to complete")

\* ------------------------------------------------- claims: seats
\* C15: an update by its driver that sets seats_taken on a ride is accepted
\* whatever seats_available is: it returns no error, changes the one row and
\* the row then holds the seats_taken sent.
C15_SeatsTakenUnbounded ==
    [][(/\ result' # result
        /\ result'.op = "update"
        /\ result'.table = "carpool_rides")
       => \A p \in result'.data :
             "seats_taken" \in DOMAIN p =>
                \A r \in carpool_rides :
                    (r.id = result'.target /\ r.driver_id = result'.caller) =>
                       /\ ~result'.error
                       /\ result'.count = 1
                       /\ \E q \in carpool_rides' :
                             /\ q.id = r.id
                             /\ q.seats_taken = p.seats_taken
                             /\ q.seats_available = r.seats_available]_vars

\* A ride offered with 3 seats holds seats_taken = 5 after its driver's
\* update.
C15_Witness ==
    /\ result.op = "update" /\ result.table = "carpool_rides"
    /\ ~result.error /\ result.count = 1
    /\ \E r \in carpool_rides :
          /\ r.id = result.target
          /\ r.driver_id = result.caller
          /\ r.seats_available = 3
          /\ r.seats_taken = 5

\* ------------------------------------------------- claims: activity log
\* Sequence a is an initial part of sequence b.
IsPrefix(a, b) == Len(a) <= Len(b) /\ \A i \in 1..Len(a) : a[i] = b[i]

\* C16: every client statement leaves the entries already in activity_logs
\* in place and as they were, and an insert that gives the two required
\* columns is accepted from any caller, signed in or not, and for any actor
\* it names.
C16_LogAppendOnly ==
    [][/\ IsPrefix(activity_logs, activity_logs')
       /\ (result'.op = "insert" /\ result'.table = "activity_logs") =>
             \A row \in result'.data :
                 (row.action_type # NoText /\ row.entity_type # NoText) =>
                     /\ ~result'.error
                     /\ activity_logs' = Append(activity_logs, row)]_vars

\* An entry that names no actor is still in the log after an admin tried to
\* delete it.
C16_Witness ==
    /\ result.op = "delete" /\ result.table = "activity_logs"
    /\ HoldsAdmin(result.caller)
    /\ result.target \in DOMAIN activity_logs
    /\ activity_logs[result.target].user_id = NULL

\* C17: a select on activity_logs returns, to a caller without the admin
\* role, exactly the entries whose user_id is that caller (none with a null
\* or another actor), and to an admin every entry.
C17_LogSelectOwnOrAll ==
    (result.op = "select" /\ result.table = "activity_logs") =>
        result.data =
            {[id |-> i, row |-> activity_logs[i]] :
                i \in {j \in DOMAIN activity_logs :
                          \/ HoldsAdmin(result.caller)
                          \/ /\ activity_logs[j].user_id # NULL
                             /\ activity_logs[j].user_id = result.caller}}

\* A signed-in caller without the admin role has just selected and got its
\* own entry while the log also holds an entry with no actor.
C17_Witness ==
    /\ result.op = "select" /\ result.table = "activity_logs"
    /\ result.caller \in auth_users
    /\ ~HoldsAdmin(result.caller)
    /\ Cardinality(result.data) = 1
    /\ \E i \in DOMAIN activity_logs : activity_logs[i].user_id = NULL
    /\ \E i \in DOMAIN activity_logs : activity_logs[i].user_id = result.caller

\* ------------------------------------------------- claims: logging by the views
\* C18: a handler whose create or status transition succeeded at the store
\* has sent an activity-log insert for it.
C18_EveryMutationLogged ==
    (lastRun.view # "none" /\ ~lastRun.error /\ lastRun.count > 0)
    => lastRun.logged # "none"

\* C19: a handler whose create or status-transition call returned an error
\* has inserted no activity-log entry for it.
C19_LogOnlyOnSuccess ==
    lastRun.error => lastRun.logged # "ok"

\* The title of the success notification of each view.
SuccessTitle ==
    [PostTravel |-> "Travel posted!", EmergencyHelp |-> "Help is on the way!",
     Carpool |-> "Carpool ride posted!", Carpools |-> "Ride marked as completed!"]

\* The row handler run `run` wrote is in the store, in the state it wrote.
RunRowInStore(run) ==
    CASE run.view = "PostTravel" -> \E t \in travel_posts : t.id = run.id
      [] run.view = "EmergencyHelp" -> \E e \in emergency_requests : e.id = run.id
      [] run.view = "Carpool" -> \E r \in carpool_rides : r.id = run.id
      [] run.view = "Carpools" ->
            \E r \in carpool_rides : r.id = run.id /\ r.status = "completed"
      [] OTHER -> FALSE

\* C20: when a handler's create or transition succeeded and its activity-log
\* insert then failed, the row the handler wrote is in the store and the
\* notification shown is the success one.
C20_NoRollbackOnLogFailure ==
    (~lastRun.error /\ lastRun.count = 1 /\ lastRun.logged = "failed")
    => /\ RunRowInStore(lastRun)
       /\ toast = Toast(lastRun.session, SuccessTitle[lastRun.view])

\* PostTravel.onSubmit inserted a travel post, its activity-log insert
\* failed, and "Travel posted!" is on screen.
C20_Witness ==
    /\ lastRun.view = "PostTravel"
    /\ ~lastRun.error /\ lastRun.logged = "failed"
    /\ \E t \in travel_posts : t.id = lastRun.id /\ t.user_id = lastRun.session
    /\ \A i \in DOMAIN activity_logs : activity_logs[i].entity_type # "travel_post"
    /\ toast.title = "Travel posted!"

\* ------------------------------------------------- claims: resolve slot
\* A resolve of request id sent from session s has not returned yet: the
\* update is on its way to the store, or its reply on its way back.
ResolveInFlight(s, id) ==
    \/ \E q \in pending : q.caller = s /\ q.id = id
    \/ \E q \in replies : q.caller = s /\ q.id = id

\* C29: while a resolve of a request is in flight, the Resolve button of
\* that request is disabled in the session that sent it (resolvingId is
\* that request), also when the admin has started to resolve another
\* request in the meantime.
C29_InFlightStaysDisabled ==
    \A s \in UserIds, id \in EmergencyIds :
        ResolveInFlight(s, id) => resolvingId[s] = id

\* The entries of the four lists of session s, each with the owner of its
\* row and the profiles attached to it.
Listed(s) ==
    {[owner |-> travelPosts[s][i].user_id, profiles |-> travelPosts[s][i].profiles] :
        i \in DOMAIN travelPosts[s]}
    \cup {[owner |-> e.user_id, profiles |-> e.profiles] : e \in errands[s]}
    \cup {[owner |-> r.driver_id, profiles |-> r.profiles] : r \in carpools[s]}
    \cup {[owner |-> e.user_id, profiles |-> e.profiles] : e \in emergencies[s]}

\* C28: in the lists of the dashboard, errands, carpools and admin
\* emergencies views, a row owned by another identity carries no profile,
\* whatever that identity's profile holds and also when the viewer is an
\* admin; a row of the viewer carries at most the viewer's one profile.
C28_OnlyOwnProfileListed ==
    \A s \in UserIds : \A x \in Listed(s) :
        /\ x.owner # s => x.profiles = {}
        /\ Cardinality(x.profiles) <= 1

\* An admin has the emergency request of another identity on screen without
\* a profile, while that identity's profile carries a name.
C28_Witness ==
    \E s \in UserIds :
        /\ HoldsAdmin(s)
        /\ \E e \in emergencies[s], p \in profiles :
              /\ e.user_id # s /\ e.profiles = {}
              /\ p.user_id = e.user_id /\ p.name = "Sam"

\* C26: whatever the views do, an open emergency request has resolved_at and
\* resolved_by unset, and a resolved one has both set, resolved_by being an
\* identity that holds the admin role (roles do not change while the views
\* run).
C26_StatusAndResolverAgree ==
    \A e \in emergency_requests :
        /\ e.status = "open" => e.resolved_at = NULL /\ e.resolved_by = NULL
        /\ e.status = "resolved" =>
              /\ e.resolved_at # NULL
              /\ e.resolved_by \in auth_users
              /\ HoldsAdmin(e.resolved_by)
        /\ e.status \in {"open", "resolved"}

\* A request submitted through EmergencyHelp has been resolved by an admin
\* who is not its owner, and the admin has been told so.
C26_Witness ==
    /\ lastRun.view = "AdminEmergencies" /\ ~lastRun.error
    /\ \E e \in emergency_requests :
          /\ e.id = lastRun.id /\ e.status = "resolved"
          /\ e.resolved_by = lastRun.session /\ e.resolved_by # e.user_id

\* ------------------------------------------------- claims: errand views
\* C25: through the views alone no errand request becomes completed: Help
\* Out is offered to everyone but the owner, and the store lets only the
\* owner update the errand.
C25_NoErrandCompletedByViews ==
    \A e \in errand_requests :
        /\ e.status = "open"
        /\ e.completed_at = NULL /\ e.completed_by = NULL

\* Someone who is not the owner has clicked Help Out on an errand, the update
\* reached the store and changed no row, and the errand is still open.
C25_Witness ==
    /\ lastRun.view = "Errands" /\ ~lastRun.error /\ lastRun.count = 0
    /\ \E e \in errand_requests :
          /\ e.id = lastRun.id /\ e.user_id # lastRun.session
          /\ e.status = "open"

\* ------------------------------------------------- claims: create forms
\* A text input that holds nothing but white space.
Blank(t) == \A i \in DOMAIN t : t[i] = " "

\* A required input of the RequestErrand form is missing.
ErrandFormIncomplete(form) ==
    Blank(form.title) \/ Blank(form.pickupLocation) \/ Blank(form.deliveryLocation)

\* A required input of the Carpool form is missing.
CarpoolFormIncomplete(form) ==
    \/ Blank(form.fromLocation) \/ Blank(form.toLocation)
    \/ form.departureDate = "" \/ form.departureTime = ""

\* The handler sent nothing to the store: no table changed and no
\* activity-log insert was sent.
NothingSent ==
    /\ UNCHANGED <<storeVars, listingVars>>
    /\ lastRun'.logged = "none" /\ lastRun'.count = 0

\* C24: a create form submitted without a signed-in user, or with a
\* required input missing (errand: title, pickup or delivery blank; carpool:
\* from or to blank, date or time empty), sends neither the insert nor the
\* activity-log insert, and the store is unchanged: a step that sends
\* something is no such submission.
C24_ValidationBeforeStore ==
    [][\/ NothingSent
       \/ /\ \A s \in Callers, form \in ErrandForms :
                (s = Anon \/ ErrandFormIncomplete(form))
                    => ~RequestErrand_handleSubmit(s, form, TRUE, TRUE)
          /\ \A s \in Callers, form \in CarpoolForms, n \in SeatChoices :
                (s = Anon \/ CarpoolFormIncomplete(form))
                    => ~Carpool_handleSubmit(s, form, n, TRUE, TRUE)
          /\ ~PostTravel_onSubmit(Anon, TRUE, TRUE)]_vars

\* A signed-in user has just submitted an errand form with a required input
\* missing and was told so, the store holding no errand.
C24_Witness ==
    /\ toast.title = "Missing fields" /\ toast.session \in auth_users
    /\ lastRun.view = "RequestErrand" /\ lastRun.session = toast.session
    /\ errand_requests = {} /\ activity_logs = <<>>

\* ------------------------------------------------- claims: dashboard
\* The last form submitted was PostTravel, by identity a, and it created
\* post id.
JustPosted(a, id) ==
    /\ lastRun.view = "PostTravel" /\ lastRun.session = a
    /\ ~lastRun.error /\ lastRun.id = id

\* C23: a dashboard listing fetched after identity a created a travel post,
\* and before any later submission, has that post as its first element,
\* however many older posts the store holds; a listing never holds more than
\* ten posts.
C23_NewPostListedFirst ==
    [][\A s \in UserIds :
          /\ Len(travelPosts'[s]) <= 10
          /\ MountDashboard(s, TRUE) =>
                \A a \in UserIds, id \in {t.id : t \in travel_posts} :
                    JustPosted(a, id) =>
                        /\ travelPosts'[s] # <<>>
                        /\ travelPosts'[s][1].id = id
                        /\ travelPosts'[s][1].user_id = a]_vars

\* A dashboard shows ten posts, the first of them the post just created,
\* while the store holds more than ten.
C23_Witness ==
    \E s \in UserIds :
        /\ Len(travelPosts[s]) = 10
        /\ Cardinality(travel_posts) > 10
        /\ JustPosted(travelPosts[s][1].user_id, travelPosts[s][1].id)
        /\ travelPosts[s][1].created_at > 0

\* Identity u has its profile row and its 'user' role row.
Derived(u) ==
    /\ \E p \in profiles : p.user_id = u
    /\ \E r \in user_roles : r.user_id = u /\ r.role = "user"

\* C22: a signup whose profile or role insert fails creates nothing: the
\* identity, profiles and user_roles are as before; a signup that goes
\* through leaves the identity with both rows, and no step leaves an
\* identity without them.
C22_SignupFailClosed ==
    [][/\ (result'.op = "signup" /\ result'.error)
            => UNCHANGED <<auth_users, profiles, user_roles>>
       /\ (result'.op = "signup" /\ ~result'.error)
            => result'.target \in auth_users' \ auth_users
       /\ \A u \in auth_users' : Derived(u)']_vars

\* A signup was refused (its profile row could not be inserted) and its
\* identity does not exist.
C22_Witness ==
    /\ result.op = "signup" /\ result.error
    /\ result.target \notin auth_users
    /\ ~Derived(result.target)

\* ------------------------------------------------- claims: account deletion
\* The rows of the six owned tables that name u as owner or driver.
OwnedBy(u) ==
    [profiles |-> {p \in profiles : p.user_id = u},
     user_roles |-> {r \in user_roles : r.user_id = u},
     travel_posts |-> {t \in travel_posts : t.user_id = u},
     emergency_requests |-> {e \in emergency_requests : e.user_id = u},
     errand_requests |-> {e \in errand_requests : e.user_id = u},
     carpool_rides |-> {r \in carpool_rides : r.driver_id = u}]

\* The last statement deleted identity u.
Deleted(u) ==
    /\ result.kind = "service" /\ result.op = "delete"
    /\ result.table = "auth.users" /\ result.target = u
    /\ ~result.error

\* C21: once an identity has been deleted, no profile, role assignment,
\* travel post, emergency request, errand request or carpool ride that names
\* it as owner or driver remains in the store.
C21_DeleteRemovesDependents ==
    \A u \in UserIds :
        Deleted(u) => \A t \in DOMAIN OwnedBy(u) : OwnedBy(u)[t] = {}

\* Emergency requests of other identities name u as their resolver.
ResolverElsewhere(u) ==
    \E e \in emergency_requests : e.resolved_by = u /\ e.user_id # u

\* C30: the deletion of an identity that emergency requests of other
\* identities name as resolved_by is rejected and changes no row of any
\* table; the identity is deleted only when no such request names it.
C30_ResolverDeleteRejected ==
    [][\A u \in UserIds :
          (/\ result'.kind = "service" /\ result'.op = "delete"
           /\ result'.table = "auth.users" /\ result'.target = u
           /\ u \in auth_users)
          => /\ result'.error = ResolverElsewhere(u)
             /\ (u \notin auth_users') = ~ResolverElsewhere(u)
             /\ ResolverElsewhere(u) =>
                    UNCHANGED <<storeVars, listingVars>>]_vars

\* The deletion of an admin was rejected while a request of another
\* identity, resolved by that admin, is in the store.
C30_Witness ==
    /\ result.kind = "service" /\ result.op = "delete"
    /\ result.table = "auth.users" /\ result.error
    /\ result.target \in auth_users
    /\ \E e \in emergency_requests :
          /\ e.resolved_by = result.target /\ e.user_id # result.target
          /\ e.status = "resolved"
====
